---- MODULE Spec2Model ----
(***************************************************************************)
(* Model of the planner application's session tracker (src/app.py): the    *)
(* process-wide map ACTIVE_USER_SESSIONS, the Flask cookie session of each *)
(* browser, the usuario table read by the credential check, and the routes *)
(* that read or write the map: login, logout, every @login_required route, *)
(* the administrative session close and the change of user name.           *)
(*                                                                         *)
(* Time is counted in minutes (datetime.utcnow() is the variable now).     *)
(* Texts (user names, passwords) are sequences of one-character strings.   *)
(***************************************************************************)
EXTENDS Integers, Sequences, FiniteSets, TLC

VARIABLES
    now,                   \* the clock: datetime.utcnow(), in minutes
    db,                    \* table usuario: name -> [password, rol, id]
    ACTIVE_USER_SESSIONS,  \* app.py:37, usuario -> [token, last_active]
    session,               \* the Flask session (cookie) of each client
    nextToken,             \* number of the next token secrets.token_urlsafe gives
    issued_at,             \* history: token -> time of the login that issued it
    resp,                  \* the response (and log lines) of the last request
    req,                   \* in-flight login requests of the threaded server
    eventos,               \* table eventos: id -> row
    tareas,                \* table tareas: id -> row
    nextId,                \* the AUTO_INCREMENT counters of the three tables
    reloj,                 \* datetime.now(): the server's local date and time of day
    call,                  \* the call of a pure function under study and its result
    cache,                 \* db.py:18-19, _cache and _cache_timestamps: key -> [result, timestamp]
    segundos               \* time.time(), in seconds

vars == <<now, db, ACTIVE_USER_SESSIONS, session, nextToken, issued_at, resp, req,
          eventos, tareas, nextId, reloj, call, cache, segundos>>

\* the variables of the planner's store and clock, which the session tracker
\* leaves alone
\* the read cache of the persistence gateway and its clock
cacheVars == <<cache, segundos>>

plannerVars == <<eventos, tareas, nextId, reloj, call, cacheVars>>

----------------------------------------------------------------------------
(* Program constants *)

SESSION_TTL_MINUTES == 30
SESSION_MAX_AGE_HOURS == 24

SESSION_TTL == SESSION_TTL_MINUTES            \* timedelta(minutes=...), in minutes
SESSION_MAX_AGE == SESSION_MAX_AGE_HOURS * 60 \* in minutes; read by no code path

(* Bounds of the model *)

MaxTime == 45      \* last clock value of the short specifications, in minutes
MaxTokens == 2     \* tokens issued in one behaviour

\* one Tick of the clock: half a TTL, so that an inactivity below, equal to and
\* above the TTL all occur
ClockStep == SESSION_TTL_MINUTES \div 2

LongTime == SESSION_MAX_AGE + SESSION_TTL + ClockStep

----------------------------------------------------------------------------
(* Values *)

NoUser == <<>>      \* session.get('usuario') is None (or '')
NoToken == 0        \* session.get('session_token') is None
NoTime == -1        \* data.get('last_active') is None
NoData == [token |-> NoToken, last_active |-> NoTime]  \* dict.get gave None
NoRow == [password |-> <<>>, rol |-> 0, id |-> 0]      \* fetchone() gave None

EmptySession == [usuario |-> NoUser, session_token |-> NoToken, user_rol |-> 0]

ana == <<"a", "n", "a">>
adm == <<"a", "d", "m">>
eva == <<"e", "v", "a">>
ab == <<"a", "b">>
ana_padded == <<" ", "a", "n", "a", "^A">>

pwA == <<"p", "w", "A">>
pwR == <<"p", "w", "R">>

Clients == {"c1", "c2"}
\* the login forms sent: <<usuario, password>>
LoginForms ==
    { <<ana, pwA>>, <<ana, pwR>>, <<ana, <<>>>>, <<ana_padded, pwA>>,
      <<adm, pwR>>, <<eva, pwA>>, <<ab, pwA>> }

\* the users an administrator asks to close the session of
TargetNames == {ana, adm, eva, <<>>}

\* the forms of the change of user name: <<nuevo_nombre, password_confirmar>>
RenameForms == { <<eva, pwA>>, <<eva, pwR>>, <<ana, pwA>>, <<ab, pwA>>, <<adm, pwA>> }

\* "^A" stands for the control characters that str.strip() keeps
\* (\x00-\x08, \x0E-\x1B), "^FS" for those it strips as whitespace (\x0B, \x0C,
\* \x1C-\x1F)
Whitespace == {" ", "^FS"}           \* what str.strip() removes at both ends
ControlChars == {"^A", "^FS"}        \* [\x00-\x08\x0B\x0C\x0E-\x1F]
LowerLetters == {"a", "b", "c", "d", "e", "i", "m", "n", "p", "r", "s", "v", "w"}   \* [a-z]
UpperLetters == {"A", "C", "R", "S"}     \* [A-Z]
Digits == {"0", "1", "2", "3", "4", "5", "6", "7", "8", "9"}
AlNum == LowerLetters \cup UpperLetters \cup Digits      \* [a-zA-Z0-9]
UserChars == AlNum \cup {"_", "-", "@", "."}             \* [a-zA-Z0-9_\-@.]

----------------------------------------------------------------------------
(* dict operations *)

Get(map, k) == IF k \in DOMAIN map THEN map[k] ELSE NoData

Pop(map, k) == [x \in DOMAIN map \ {k} |-> map[x]]

Put(map, k, v) == [x \in DOMAIN map \cup {k} |-> IF x = k THEN v ELSE map[x]]

----------------------------------------------------------------------------
(* Text helpers (src/utils.py, src/db.py) *)

RECURSIVE LStrip(_)
LStrip(s) == IF s # <<>> /\ Head(s) \in Whitespace THEN LStrip(Tail(s)) ELSE s

RECURSIVE RStrip(_)
RStrip(s) ==
    IF s # <<>> /\ s[Len(s)] \in Whitespace THEN RStrip(SubSeq(s, 1, Len(s) - 1)) ELSE s

Strip(s) == RStrip(LStrip(s))

sanitizar_texto(texto) == SelectSeq(Strip(texto), LAMBDA ch : ch \notin ControlChars)

validar_no_vacio(texto) == Strip(texto) # <<>>

validar_longitud(texto, max_len, min_len) == min_len <= Len(texto) /\ Len(texto) <= max_len

validar_input_texto(texto, max_length) == Strip(texto) # <<>> /\ Len(texto) <= max_length

validar_usuario_password(usuario, password) ==
    /\ usuario # <<>>
    /\ password # <<>>
    /\ Len(usuario) <= 50
    /\ Len(password) <= 100
    /\ \A i \in 1..Len(usuario) : usuario[i] \in UserChars


ToLower(ch) == CASE ch = "A" -> "a" [] ch = "C" -> "c" [] ch = "R" -> "r" [] ch = "S" -> "s"
                [] OTHER -> ch

Lower(texto) == [i \in 1..Len(texto) |-> ToLower(texto[i])]

Contains(texto, patron) ==
    \E i \in 1..(Len(texto) - Len(patron) + 1) :
        SubSeq(texto, i, i + Len(patron) - 1) = patron

patrones_peligrosos ==
    { <<"<", "s", "c", "r", "i", "p", "t">>,
      <<"j", "a", "v", "a", "s", "c", "r", "i", "p", "t", ":">>,
      <<"o", "n", "e", "r", "r", "o", "r", "=">>,
      <<"o", "n", "c", "l", "i", "c", "k", "=">> }

validar_texto_seguro(texto, max_length, required) ==
    IF texto = <<>> THEN ~required
    ELSE IF Len(texto) > max_length THEN FALSE
    ELSE \A patron \in patrones_peligrosos : ~Contains(Lower(texto), patron)

----------------------------------------------------------------------------
(* Dates and times (src/utils.py).  A date text 'YYYY-MM-DD' is the sequence
   <<year, month, day>>, a time text 'HH:MM' is <<hour, minute>> and
   'HH:MM:SS' is <<hour, minute, second>>, every field written with its full
   number of digits; None and '' are <<>>. *)

Vacio == <<>>                  \* None or ''
NullText == <<0, 0, 0, 0>>     \* the literal text 'null'

Ayer == <<2025, 6, 29>>
Hoy == <<2025, 6, 30>>         \* the server's date when the process starts
Manana == <<2025, 7, 1>>
PasadoManana == <<2025, 7, 2>>
FechaInvalida == <<2025, 6, 31>>

H0000 == <<0, 0>>
H0859 == <<8, 59>>
H0900 == <<9, 0>>
H1200 == <<12, 0>>             \* the server's time of day when the process starts
H1800 == <<18, 0>>
H090000 == <<9, 0, 0>>         \* '09:00:00'
HoraInvalida == <<24, 0>>

IsLeap(y) == (y % 4 = 0 /\ y % 100 # 0) \/ y % 400 = 0

DaysInMonth(y, m) ==
    CASE m \in {1, 3, 5, 7, 8, 10, 12} -> 31
      [] m \in {4, 6, 9, 11} -> 30
      [] OTHER -> IF IsLeap(y) THEN 29 ELSE 28

RECURSIVE DaysBeforeMonth(_, _)
DaysBeforeMonth(y, m) ==
    IF m <= 1 THEN 0 ELSE DaysBeforeMonth(y, m - 1) + DaysInMonth(y, m - 1)

\* datetime.strptime(fecha_str, '%Y-%m-%d') raises no ValueError
validar_fecha_formato(fecha_str) ==
    /\ fecha_str # Vacio
    /\ Len(fecha_str) = 3
    /\ fecha_str[1] \in 1..9999
    /\ fecha_str[2] \in 1..12
    /\ fecha_str[3] \in 1..DaysInMonth(fecha_str[1], fecha_str[2])

\* the date a valid text parses to, as date.toordinal() numbers it
toordinal(f) ==
    365 * (f[1] - 1) + ((f[1] - 1) \div 4) - ((f[1] - 1) \div 100) + ((f[1] - 1) \div 400)
    + DaysBeforeMonth(f[1], f[2]) + f[3]

\* datetime.strptime(hora_str, '%H:%M') raises no ValueError
validar_hora_formato(hora_str) ==
    /\ hora_str # Vacio
    /\ Len(hora_str) = 2
    /\ hora_str[1] \in 0..23
    /\ hora_str[2] \in 0..59

\* the time of day a valid text parses to, in minutes
minutos(h) == 60 * h[1] + h[2]

\* hora[:5]: the first five characters
primeros5(h) == IF Len(h) > 2 THEN SubSeq(h, 1, 2) ELSE h
\* faulty variant of validar_fecha_no_pasada: yesterday is still accepted
validar_fecha_no_pasada_ayer(fecha_str, hoy) ==
    /\ validar_fecha_formato(fecha_str)
    /\ toordinal(fecha_str) >= toordinal(hoy) - 1


validar_fecha_no_pasada(fecha_str, hoy) ==
    IF ~validar_fecha_formato(fecha_str) THEN FALSE
    ELSE toordinal(fecha_str) >= toordinal(hoy)

validar_fecha_hora_no_pasada(fecha_str, hora_str, ahora) ==
    IF ~validar_fecha_formato(fecha_str) THEN FALSE
    ELSE IF toordinal(fecha_str) > toordinal(ahora.fecha) THEN TRUE
    ELSE IF toordinal(fecha_str) < toordinal(ahora.fecha) THEN FALSE
    ELSE IF hora_str = Vacio THEN TRUE
    ELSE IF ~validar_hora_formato(hora_str) THEN FALSE
    ELSE minutos(hora_str) >= minutos(ahora.hora)

\* A value of a form field or of a JSON body, as int() and str() see it: an
\* integer, a number with a fraction (n counts tenths), a text or None.
JInt(n) == [kind |-> "int", n |-> n, texto |-> <<>>]
JFloat(tenths) == [kind |-> "float", n |-> tenths, texto |-> <<>>]
JText(t) == [kind |-> "text", n |-> 0, texto |-> t]
JNone == [kind |-> "none", n |-> 0, texto |-> <<>>]


DigitValue(ch) ==
    CASE ch = "0" -> 0 [] ch = "1" -> 1 [] ch = "2" -> 2 [] ch = "3" -> 3 [] ch = "4" -> 4
      [] ch = "5" -> 5 [] ch = "6" -> 6 [] ch = "7" -> 7 [] ch = "8" -> 8 [] ch = "9" -> 9

RECURSIVE Decimal(_)
Decimal(t) == IF t = <<>> THEN 0
              ELSE 10 * Decimal(SubSeq(t, 1, Len(t) - 1)) + DigitValue(t[Len(t)])

\* a text int() accepts: digits, an optional sign before, white space around
IsNumeral(t) ==
    LET u == Strip(t)
        d == IF u # <<>> /\ Head(u) \in {"-", "+"} THEN Tail(u) ELSE u
    IN d # <<>> /\ \A i \in 1..Len(d) : d[i] \in Digits

Numeral(t) ==
    LET u == Strip(t) IN
    IF Head(u) = "-" THEN 0 - Decimal(Tail(u))
    ELSE IF Head(u) = "+" THEN Decimal(Tail(u))
    ELSE Decimal(u)

\* int(v) raises ValueError or TypeError
int_raises(v) == v.kind = "none" \/ (v.kind = "text" /\ ~IsNumeral(v.texto))

\* int(v): a fraction is cut towards zero
int(v) ==
    IF v.kind = "int" THEN v.n
    ELSE IF v.kind = "float" THEN (IF v.n >= 0 THEN v.n \div 10 ELSE 0 - ((0 - v.n) \div 10))
    ELSE Numeral(v.texto)

validar_prioridad(prioridad) == ~int_raises(prioridad) /\ int(prioridad) \in {1, 2, 3}

validar_estado(estado) == ~int_raises(estado) /\ int(estado) \in {0, 1}


validar_id(id_valor) == id_valor > 0

\* faulty variant of validar_rango_horas: equal bounds are refused
validar_rango_horas_estricto(hora_inicio, hora_fin) ==
    IF hora_inicio = Vacio \/ hora_fin = Vacio THEN TRUE
    ELSE IF ~(validar_hora_formato(hora_inicio) /\ validar_hora_formato(hora_fin)) THEN FALSE
    ELSE minutos(hora_fin) > minutos(hora_inicio)

validar_rango_horas(hora_inicio, hora_fin) ==
    IF hora_inicio = Vacio \/ hora_fin = Vacio THEN TRUE
    ELSE IF ~(validar_hora_formato(hora_inicio) /\ validar_hora_formato(hora_fin)) THEN FALSE
    ELSE minutos(hora_fin) >= minutos(hora_inicio)

validar_fechas(fecha_inicio, fecha_fin) ==
    IF fecha_fin = Vacio THEN TRUE
    ELSE IF ~validar_fecha_formato(fecha_inicio) \/ ~validar_fecha_formato(fecha_fin) THEN FALSE
    ELSE toordinal(fecha_fin) >= toordinal(fecha_inicio)

limpiar_valor_opcional(valor) == IF valor = Vacio \/ valor = NullText THEN Vacio ELSE valor

----------------------------------------------------------------------------
(* The usuario table (src/db.py) *)

\* bcrypt.checkpw: the password matches the stored hash
checkpw(password, stored) == password = stored

verificar_usuario(tabla, nombre, password) ==
    IF ~validar_usuario_password(nombre, password) THEN FALSE
    ELSE IF nombre \notin DOMAIN tabla THEN FALSE
    ELSE checkpw(password, tabla[nombre].password)

obtener_usuario_por_nombre(tabla, nombre) ==
    IF nombre = <<>> \/ ~validar_input_texto(nombre, 50) THEN NoRow
    ELSE IF nombre \in DOMAIN tabla THEN tabla[nombre] ELSE NoRow

----------------------------------------------------------------------------
(* cleanup_expired_sessions (src/app.py:41-69) *)

\* faulty variant of expired_users: an entry inactive for exactly the TTL expires
expired_users_inclusive(map, t) ==
    { usuario \in DOMAIN map :
        \/ map[usuario].last_active = NoTime
        \/ t - map[usuario].last_active >= SESSION_TTL }

expired_users(map, t) ==
    { usuario \in DOMAIN map :
        \/ map[usuario].last_active = NoTime
        \/ t - map[usuario].last_active > SESSION_TTL }

cleanup_expired_sessions(map, t) ==
    [usuario \in DOMAIN map \ expired_users(map, t) |-> map[usuario]]

----------------------------------------------------------------------------
(* login_required.decorated_function (src/app.py:122-160) *)

\* faulty variant of auth_outcome: an inactivity of exactly the TTL is refused
auth_outcome_inclusive(cookie, map, t) ==
    IF cookie.usuario = NoUser \/ cookie.session_token = NoToken THEN "NoIdentity"
    ELSE LET data == Get(map, cookie.usuario) IN
         IF data = NoData \/ data.token # cookie.session_token THEN "Invalidated"
         ELSE IF data.last_active = NoTime THEN "NoLastActive"
         ELSE IF t - data.last_active >= SESSION_TTL THEN "Expired"
         ELSE "ok"

\* variant of auth_outcome that enforces SESSION_MAX_AGE: a session is refused
\* once its token is older than the absolute lifetime
auth_outcome_max_age(cookie, map, t) ==
    IF cookie.usuario = NoUser \/ cookie.session_token = NoToken THEN "NoIdentity"
    ELSE LET data == Get(map, cookie.usuario) IN
         IF data = NoData \/ data.token # cookie.session_token THEN "Invalidated"
         ELSE IF data.last_active = NoTime THEN "NoLastActive"
         ELSE IF t - data.last_active > SESSION_TTL THEN "Expired"
         ELSE IF /\ cookie.session_token \in DOMAIN issued_at
                 /\ t - issued_at[cookie.session_token] > SESSION_MAX_AGE THEN "Expired"
         ELSE "ok"

\* which return of the decorator a request takes
auth_outcome(cookie, map, t) ==
    IF cookie.usuario = NoUser \/ cookie.session_token = NoToken THEN "NoIdentity"
    ELSE LET data == Get(map, cookie.usuario) IN
         IF data = NoData \/ data.token # cookie.session_token THEN "Invalidated"
         ELSE IF data.last_active = NoTime THEN "NoLastActive"
         ELSE IF t - data.last_active > SESSION_TTL THEN "Expired"
         ELSE "ok"

\* faulty variant of auth_map: every failure drops the entry of the presented user
auth_map_pop_always(cookie, map, t) ==
    IF auth_outcome(cookie, map, t) = "ok"
    THEN [map EXCEPT ![cookie.usuario].last_active = t]
    ELSE Pop(map, cookie.usuario)

\* ACTIVE_USER_SESSIONS after the decorator ran
auth_map(cookie, map, t) ==
    LET o == auth_outcome(cookie, map, t) IN
    IF o \in {"NoLastActive", "Expired"} THEN Pop(map, cookie.usuario)
    ELSE IF o = "ok" THEN [map EXCEPT ![cookie.usuario].last_active = t]
    ELSE map

\* the Flask session after the decorator ran: session.clear() on every failure
auth_session(cookie, map, t) ==
    IF auth_outcome(cookie, map, t) = "ok" THEN cookie ELSE EmptySession

----------------------------------------------------------------------------
(* login (src/app.py:172-245), its steps *)

\* lines 176-182: the requester already holds the live session
already_logged_in(cookie, map) ==
    /\ cookie.usuario # NoUser
    /\ cookie.session_token # NoToken
    /\ Get(map, cookie.usuario) # NoData
    /\ Get(map, cookie.usuario).token = cookie.session_token

\* lines 190-196: the basic field checks
login_fields_ok(usuario, password) ==
    /\ validar_no_vacio(usuario)
    /\ validar_no_vacio(password)
    /\ validar_longitud(usuario, 50, 3)

\* faulty variant of login_blocked: a live session never blocks a login
login_blocked_never(existing, force_login, t) ==
    /\ existing # NoData
    /\ ~force_login
    /\ existing.last_active = NoTime

\* faulty variant of login_blocked: the force flag is ignored
login_blocked_force_ignored(existing, force_login, t) ==
    /\ existing # NoData
    /\ existing.last_active # NoTime
    /\ t - existing.last_active < SESSION_TTL

\* lines 203-217 (PASO 2): the login is answered "session already active"
login_blocked(existing, force_login, t) ==
    /\ existing # NoData
    /\ ~force_login
    /\ existing.last_active # NoTime
    /\ t - existing.last_active < SESSION_TTL

\* line 220 (PASO 2, not blocked): the expired entry is dropped
login_step2(map, usuario, existing, force_login) ==
    IF existing # NoData /\ ~force_login THEN Pop(map, usuario) ELSE map

\* lines 223-225 (PASO 3): a forced login drops the previous session
login_step3(map, usuario, existing, force_login) ==
    IF force_login /\ existing # NoData THEN Pop(map, usuario) ELSE map

\* faulty variant of login_step4: the entry is written without last_active
login_step4_no_time(map, usuario, token, t) ==
    Put(map, usuario, [token |-> token, last_active |-> NoTime])

\* lines 234-239 (PASO 4): the new entry
login_step4(map, usuario, token, t) ==
    Put(map, usuario, [token |-> token, last_active |-> t])

login_session(cookie, tabla, usuario, token) ==
    [usuario |-> usuario,
     session_token |-> token,
     user_rol |-> IF obtener_usuario_por_nombre(tabla, usuario) # NoRow
                  THEN obtener_usuario_por_nombre(tabla, usuario).rol ELSE 1]

----------------------------------------------------------------------------
(* The handlers, as functions of the current state and of the request: what
   each one answers and what it leaves in the map, in the requester's Flask
   session and in the usuario table *)

\* POST /login handled to completion (src/app.py:172-245)
login(c, raw_usuario, password, force_login) ==
    LET usuario == sanitizar_texto(raw_usuario)
        map1 == cleanup_expired_sessions(ACTIVE_USER_SESSIONS, now)
        cleaned == Cardinality(expired_users(ACTIVE_USER_SESSIONS, now))
        existing == Get(map1, usuario)
        map2 == login_step2(map1, usuario, existing, force_login)
        map3 == login_step3(map2, usuario, existing, force_login)
        forced == force_login /\ existing # NoData
        unchanged == [map |-> ACTIVE_USER_SESSIONS, cookie |-> session[c],
                      cleaned |-> 0, forced |-> FALSE]
    IN
    IF already_logged_in(session[c], ACTIVE_USER_SESSIONS) THEN
        [outcome |-> "AlreadyLoggedIn"] @@ unchanged
    ELSE IF ~login_fields_ok(usuario, password) THEN
        [outcome |-> "FieldError"] @@ unchanged
    ELSE IF login_blocked(existing, force_login, now) THEN
        [outcome |-> "Rejected", map |-> map1, cookie |-> session[c],
         cleaned |-> cleaned, forced |-> FALSE]
    ELSE IF verificar_usuario(db, usuario, password) THEN
        [outcome |-> "Granted",
         map |-> login_step4(map3, usuario, nextToken, now),
         cookie |-> login_session(session[c], db, usuario, nextToken),
         cleaned |-> cleaned, forced |-> forced]
    ELSE
        [outcome |-> "InvalidCredentials", map |-> map3, cookie |-> session[c],
         cleaned |-> cleaned, forced |-> forced]

\* faulty variant of logout_map: the entry stays in the map
logout_map_keep(cookie, map) == map

\* GET /logout (src/app.py:248-260)
logout_map(cookie, map) ==
    IF cookie.usuario # NoUser /\ cookie.usuario \in DOMAIN map
    THEN Pop(map, cookie.usuario) ELSE map

logout(c) ==
    [outcome |-> "ok", map |-> logout_map(session[c], ACTIVE_USER_SESSIONS),
     cookie |-> EmptySession]

\* a @login_required route whose body leaves the session map alone
\* (dashboard, calendar, the event and task routes)
decorated_function(c) ==
    [outcome |-> auth_outcome(session[c], ACTIVE_USER_SESSIONS, now),
     map |-> auth_map(session[c], ACTIVE_USER_SESSIONS, now),
     cookie |-> auth_session(session[c], ACTIVE_USER_SESSIONS, now)]

\* POST /admin/cerrar-sesion-usuario (src/app.py:1211-1234)
es_admin(tabla, usuario) ==
    /\ obtener_usuario_por_nombre(tabla, usuario) # NoRow
    /\ obtener_usuario_por_nombre(tabla, usuario).rol = 3

\* the route's body: its answer, given the map the decorator left
cerrar_sesion_outcome(tabla, usuario_actual, map, usuario_objetivo) ==
    IF ~es_admin(tabla, usuario_actual) THEN "NoPermission"
    ELSE IF usuario_objetivo = <<>> THEN "NoTarget"
    ELSE IF usuario_objetivo \in DOMAIN map THEN "Closed"
    ELSE "NoActiveSession"

\* the route's body: the map after it, given the map the decorator left
cerrar_sesion_map(tabla, usuario_actual, map, usuario_objetivo) ==
    IF cerrar_sesion_outcome(tabla, usuario_actual, map, usuario_objetivo) = "Closed"
    THEN Pop(map, usuario_objetivo) ELSE map

cerrar_sesion_usuario_admin(c, usuario_objetivo) ==
    LET auth == decorated_function(c) IN
    IF auth.outcome # "ok" THEN auth
    ELSE [outcome |-> cerrar_sesion_outcome(db, session[c].usuario, auth.map,
                                            usuario_objetivo),
          map |-> cerrar_sesion_map(db, session[c].usuario, auth.map, usuario_objetivo),
          cookie |-> auth.cookie]

\* POST /cambiar-nombre (src/app.py:1270-1341)
\* lines 1281-1303: the list of errors is empty
cambiar_nombre_ok(tabla, usuario_actual, nuevo_nombre, password_confirmar) ==
    /\ validar_no_vacio(nuevo_nombre)
    /\ validar_longitud(nuevo_nombre, 50, 3)
    /\ validar_texto_seguro(nuevo_nombre, 50, TRUE)
    /\ \/ obtener_usuario_por_nombre(tabla, nuevo_nombre) = NoRow
       \/ nuevo_nombre = usuario_actual
    /\ obtener_usuario_por_nombre(tabla, usuario_actual) # NoRow
    /\ checkpw(password_confirmar, obtener_usuario_por_nombre(tabla, usuario_actual).password)

\* line 1319: UPDATE usuario SET usuario = nuevo WHERE usuario = actual
update_usuario(tabla, usuario_actual, nuevo_nombre) ==
    IF usuario_actual \notin DOMAIN tabla THEN tabla
    ELSE [n \in (DOMAIN tabla \ {usuario_actual}) \cup {nuevo_nombre} |->
             IF n = nuevo_nombre THEN tabla[usuario_actual] ELSE tabla[n]]

\* faulty variant of rename_map: the entry under the old name is left behind
rename_map_copy(map, usuario_actual, nuevo_nombre, token, t) ==
    IF token # NoToken
    THEN Put(map, nuevo_nombre, [token |-> token, last_active |-> t])
    ELSE map

\* lines 1327-1333: the live entry moves under the new name
rename_map(map, usuario_actual, nuevo_nombre, token, t) ==
    IF token # NoToken
    THEN Put(Pop(map, usuario_actual), nuevo_nombre, [token |-> token, last_active |-> t])
    ELSE map

\* store_ok: the UPDATE and its commit raise no exception
cambiar_nombre_usuario(c, raw_nombre, raw_password, store_ok) ==
    LET auth == decorated_function(c)
        usuario_actual == session[c].usuario
        nuevo_nombre == Strip(raw_nombre)
        password_confirmar == Strip(raw_password)
    IN
    IF auth.outcome # "ok" THEN auth @@ [tabla |-> db]
    ELSE IF ~cambiar_nombre_ok(db, usuario_actual, nuevo_nombre, password_confirmar) THEN
        [outcome |-> "ValidationError", map |-> auth.map, cookie |-> auth.cookie,
         tabla |-> db]
    ELSE IF ~store_ok THEN
        [outcome |-> "StoreError", map |-> auth.map, cookie |-> auth.cookie, tabla |-> db]
    ELSE
        [outcome |-> "Renamed",
         map |-> rename_map(auth.map, usuario_actual, nuevo_nombre,
                            session[c].session_token, now),
         cookie |-> [auth.cookie EXCEPT !.usuario = nuevo_nombre],
         tabla |-> update_usuario(db, usuario_actual, nuevo_nombre)]

----------------------------------------------------------------------------
(* Initial state: the process has just started, two users are registered *)

\* a login request of the threaded server: its position and its local variables
Idle == [pc |-> "idle", usuario |-> NoUser, password |-> <<>>, force_login |-> FALSE,
         existing |-> NoData, outcome |-> "none", token |-> NoToken]

\* the answer to a request and the lines it logs
Response(op, c, outcome, cleaned, forced) ==
    [op |-> op, client |-> c, outcome |-> outcome, cleaned |-> cleaned, forced |-> forced]

\* no call of a pure function is under study
NoCall == [fn |-> "none", a |-> Vacio, b |-> Vacio, done |-> FALSE, result |-> FALSE]

\* the program's state when the process has started
InitState ==
    /\ now = 0
    /\ db = (ana :> [password |-> pwA, rol |-> 1, id |-> 1]) @@
            (adm :> [password |-> pwR, rol |-> 3, id |-> 2])
    /\ ACTIVE_USER_SESSIONS = <<>>
    /\ session = [c \in Clients |-> EmptySession]
    /\ nextToken = 1
    /\ issued_at = <<>>
    /\ resp = Response("start", "c1", "none", 0, FALSE)
    /\ req = [c \in Clients |-> Idle]
    /\ eventos = <<>>
    /\ tareas = <<>>
    /\ nextId = [usuario |-> 3, evento |-> 1, tarea |-> 1]
    /\ reloj = [fecha |-> Hoy, hora |-> H1200]
    /\ cache = <<>>
    /\ segundos = 0

Init ==
    /\ InitState
    /\ call = NoCall

----------------------------------------------------------------------------
(* Actions: the clock, and one request handled to completion *)

Tick(limit) ==
    /\ now + ClockStep <= limit
    /\ now' = now + ClockStep
    /\ UNCHANGED <<db, ACTIVE_USER_SESSIONS, session, nextToken, issued_at, resp, req, plannerVars>>

Login(c, raw_usuario, password, force_login) ==
    \E r \in {login(c, raw_usuario, password, force_login)} :
    /\ r.outcome = "Granted" => nextToken <= MaxTokens
    /\ ACTIVE_USER_SESSIONS' = r.map
    /\ session' = [session EXCEPT ![c] = r.cookie]
    /\ nextToken' = IF r.outcome = "Granted" THEN nextToken + 1 ELSE nextToken
    /\ resp' = Response("login", c, r.outcome, r.cleaned, r.forced)
    /\ UNCHANGED <<now, db, req, plannerVars>>

Logout(c) ==
    \E r \in {logout(c)} :
    /\ ACTIVE_USER_SESSIONS' = r.map
    /\ session' = [session EXCEPT ![c] = r.cookie]
    /\ resp' = Response("logout", c, r.outcome, 0, FALSE)
    /\ UNCHANGED <<now, db, nextToken, issued_at, req, plannerVars>>

ProtectedRequest(c) ==
    \E r \in {decorated_function(c)} :
    /\ ACTIVE_USER_SESSIONS' = r.map
    /\ session' = [session EXCEPT ![c] = r.cookie]
    /\ resp' = Response("request", c, r.outcome, 0, FALSE)
    /\ UNCHANGED <<now, db, nextToken, issued_at, req, plannerVars>>

\* the browser is closed without logout: its session cookie is gone and the
\* entry stays in the map, orphaned (docstring of cleanup_expired_sessions)
CloseBrowser(c) ==
    /\ session[c] # EmptySession
    /\ session' = [session EXCEPT ![c] = EmptySession]
    /\ resp' = Response("close", c, "none", 0, FALSE)
    /\ UNCHANGED <<now, db, ACTIVE_USER_SESSIONS, nextToken, issued_at, req, plannerVars>>

CerrarSesionUsuarioAdmin(c, usuario_objetivo) ==
    \E r \in {cerrar_sesion_usuario_admin(c, usuario_objetivo)} :
    /\ ACTIVE_USER_SESSIONS' = r.map
    /\ session' = [session EXCEPT ![c] = r.cookie]
    /\ resp' = Response("terminate", c, r.outcome, 0, FALSE)
    /\ UNCHANGED <<now, db, nextToken, issued_at, req, plannerVars>>

CambiarNombreUsuario(c, raw_nombre, raw_password, store_ok) ==
    \E r \in {cambiar_nombre_usuario(c, raw_nombre, raw_password, store_ok)} :
    /\ ACTIVE_USER_SESSIONS' = r.map
    /\ session' = [session EXCEPT ![c] = r.cookie]
    /\ db' = r.tabla
    /\ resp' = Response("rename", c, r.outcome, 0, FALSE)
    /\ UNCHANGED <<now, nextToken, issued_at, req, plannerVars>>

----------------------------------------------------------------------------
(* The history variable issued_at is written only by the specification that
   studies the age of a session; the program keeps no such record. *)

LoginUnrecorded(c, raw_usuario, password, force_login) ==
    /\ Login(c, raw_usuario, password, force_login)
    /\ UNCHANGED issued_at

LoginRecorded(c, raw_usuario, password, force_login) ==
    /\ Login(c, raw_usuario, password, force_login)
    /\ issued_at' = IF resp'.outcome = "Granted"
                    THEN Put(issued_at, nextToken, now) ELSE issued_at

----------------------------------------------------------------------------
(* Spec: one worker handles one request at a time to completion *)

Next ==
    \/ Tick(MaxTime)
    \/ \E c \in Clients, form \in LoginForms, f \in BOOLEAN :
           LoginUnrecorded(c, form[1], form[2], f)
    \/ \E c \in Clients : Logout(c)
    \/ \E c \in Clients : ProtectedRequest(c)
    \/ \E c \in Clients : CloseBrowser(c)
    \/ \E c \in Clients, u \in TargetNames : CerrarSesionUsuarioAdmin(c, u)

Spec == Init /\ [][Next]_vars

----------------------------------------------------------------------------
(* SpecRename: the change of user name, among logins that succeed and
   protected requests *)

NextRename ==
    \/ Tick(MaxTime)
    \/ \E c \in Clients, form \in {<<ana, pwA>>, <<adm, pwR>>, <<eva, pwA>>} :
           LoginUnrecorded(c, form[1], form[2], FALSE)
    \/ \E c \in Clients : ProtectedRequest(c)
    \/ \E c \in Clients, form \in RenameForms, ok \in BOOLEAN :
           CambiarNombreUsuario(c, form[1], form[2], ok)

SpecRename == Init /\ [][NextRename]_vars

----------------------------------------------------------------------------
(* SpecLong: one session, opened at any time and followed beyond
   SESSION_MAX_AGE; a second browser's failed logins run the cleanup *)

NextLong ==
    \/ Tick(LongTime)
    \/ nextToken = 1 /\ LoginRecorded("c1", ana, pwA, FALSE)
    \/ LoginRecorded("c2", eva, pwA, FALSE)
    \/ ProtectedRequest("c1")

SpecLong == Init /\ [][NextLong]_vars

----------------------------------------------------------------------------
(* SpecRace: app.run (src/app.py:1415-1417) starts the development server,
   which serves each request on its own thread; login takes no lock, so the
   steps of two login requests interleave.  Each browser sends one login. *)

Answer(c, outcome) == [req EXCEPT ![c].pc = "done", ![c].outcome = outcome]

\* lines 176-196: the shortcut and the basic field checks
LoginBegin(c, raw_usuario, password, force_login) ==
    LET usuario == sanitizar_texto(raw_usuario) IN
    /\ req[c].pc = "idle"
    /\ req' = IF already_logged_in(session[c], ACTIVE_USER_SESSIONS)
              THEN Answer(c, "AlreadyLoggedIn")
              ELSE IF ~login_fields_ok(usuario, password)
              THEN Answer(c, "FieldError")
              ELSE [req EXCEPT ![c].pc = "cleanup", ![c].usuario = usuario,
                               ![c].password = password, ![c].force_login = force_login]
    /\ UNCHANGED <<now, db, ACTIVE_USER_SESSIONS, session, nextToken, issued_at, resp, plannerVars>>

\* line 199 (PASO 1)
LoginCleanup(c) ==
    /\ req[c].pc = "cleanup"
    /\ ACTIVE_USER_SESSIONS' = cleanup_expired_sessions(ACTIVE_USER_SESSIONS, now)
    /\ req' = [req EXCEPT ![c].pc = "lookup"]
    /\ UNCHANGED <<now, db, session, nextToken, issued_at, resp, plannerVars>>

\* lines 202-225 (PASO 2 and 3): the lookup of the existing entry
LoginLookup(c) ==
    LET r == req[c]
        existing == Get(ACTIVE_USER_SESSIONS, r.usuario)
    IN
    /\ r.pc = "lookup"
    /\ IF login_blocked(existing, r.force_login, now) THEN
           /\ req' = Answer(c, "Rejected")
           /\ UNCHANGED ACTIVE_USER_SESSIONS
       ELSE
           /\ ACTIVE_USER_SESSIONS' =
                  login_step3(login_step2(ACTIVE_USER_SESSIONS, r.usuario, existing,
                                          r.force_login),
                              r.usuario, existing, r.force_login)
           /\ req' = [req EXCEPT ![c].pc = "verify", ![c].existing = existing]
    /\ UNCHANGED <<now, db, session, nextToken, issued_at, resp, plannerVars>>

\* line 228 (PASO 4): the credential check, a query to the store and bcrypt
LoginVerify(c) ==
    /\ req[c].pc = "verify"
    /\ req' = IF verificar_usuario(db, req[c].usuario, req[c].password)
              THEN [req EXCEPT ![c].pc = "write"]
              ELSE Answer(c, "InvalidCredentials")
    /\ UNCHANGED <<now, db, ACTIVE_USER_SESSIONS, session, nextToken, issued_at, resp, plannerVars>>

\* lines 230-241: the token and the write of the new entry
LoginWrite(c) ==
    /\ req[c].pc = "write"
    /\ nextToken <= MaxTokens
    /\ ACTIVE_USER_SESSIONS' =
           login_step4(ACTIVE_USER_SESSIONS, req[c].usuario, nextToken, now)
    /\ session' = [session EXCEPT ![c] = login_session(@, db, req[c].usuario, nextToken)]
    /\ nextToken' = nextToken + 1
    /\ req' = [req EXCEPT ![c].pc = "done", ![c].outcome = "Granted", ![c].token = nextToken]
    /\ UNCHANGED <<now, db, issued_at, resp, plannerVars>>

NextRace ==
    \/ \E c \in Clients, form \in LoginForms, f \in BOOLEAN :
           LoginBegin(c, form[1], form[2], f)
    \/ \E c \in Clients : LoginCleanup(c)
    \/ \E c \in Clients : LoginLookup(c)
    \/ \E c \in Clients : LoginVerify(c)
    \/ \E c \in Clients : LoginWrite(c)

SpecRace == Init /\ [][NextRace]_vars

----------------------------------------------------------------------------
(* Properties.  A property of a handler is stated as an invariant over what the
   handler answers and leaves behind when it is run in a reachable state, for
   every request of the input sets. *)

\* the entry of usuario is live for a login at time t
Live(usuario, t) ==
    /\ usuario \in DOMAIN ACTIVE_USER_SESSIONS
    /\ t - ACTIVE_USER_SESSIONS[usuario].last_active < SESSION_TTL

\* the login request reaches the session check: the requester does not hold a
\* live session itself (lines 176-182) and both fields are filled in
Processed(c, usuario, password) ==
    /\ ~( /\ session[c].usuario \in DOMAIN ACTIVE_USER_SESSIONS
          /\ ACTIVE_USER_SESSIONS[session[c].usuario].token = session[c].session_token )
    /\ Len(usuario) >= 3
    /\ \E i \in 1..Len(password) : password[i] # " "

\* client k presents the token that the map holds under the name it presents
Holds(cookie, map) ==
    /\ cookie.usuario \in DOMAIN map
    /\ map[cookie.usuario].token = cookie.session_token

Tokens(map) == { map[k].token : k \in DOMAIN map }

\* C1: a login without force for a user whose entry has now - last_active <
\* SESSION_TTL is never granted, whatever the credentials: no token is issued,
\* the entry keeps its token and last_active, the token issued earlier keeps
\* authenticating, and a request that reaches the session check is Rejected.
C1_SingleLiveSession ==
    \A c \in Clients, form \in LoginForms :
      \A u \in {form[1]}, p \in {form[2]}, usuario \in {sanitizar_texto(form[1])} :
        Live(usuario, now) =>
          \A r \in {login(c, u, p, FALSE)} :
            /\ r.outcome # "Granted"
            /\ usuario \in DOMAIN r.map
            /\ r.map[usuario] = ACTIVE_USER_SESSIONS[usuario]
            /\ r.cookie = session[c]
            /\ Processed(c, usuario, p) => r.outcome = "Rejected"
            /\ \A k \in Clients :
                 (session[k].usuario = usuario /\ Holds(session[k], ACTIVE_USER_SESSIONS))
                 => auth_outcome(IF k = c THEN r.cookie ELSE session[k], r.map, now) = "ok"

\* a second browser was refused while the first one holds the live session
C1_Witness ==
    /\ resp.op = "login"
    /\ resp.outcome = "Rejected"
    /\ \E k \in Clients \ {resp.client} :
         /\ Holds(session[k], ACTIVE_USER_SESSIONS)
         /\ Live(session[k].usuario, now)
         /\ now > ACTIVE_USER_SESSIONS[session[k].usuario].last_active

\* C2: for a user with no entry, a login with valid credentials is Granted and
\* creates the entry {token: fresh token, last_active: now}; right afterwards
\* a request presenting (u, that token) is authenticated and a request
\* presenting (u, any other token) is not.
C2_LoginCreatesSession ==
    \A c \in Clients, form \in LoginForms, f \in BOOLEAN :
      \A u \in {form[1]}, p \in {form[2]}, usuario \in {sanitizar_texto(form[1])} :
        ( /\ usuario \notin DOMAIN ACTIVE_USER_SESSIONS
          /\ usuario \in DOMAIN db
          /\ db[usuario].password = p
          /\ Processed(c, usuario, p) )
        => \A r \in {login(c, u, p, f)} :
             /\ r.outcome = "Granted"
             /\ nextToken \notin Tokens(ACTIVE_USER_SESSIONS)
             /\ \A k \in Clients : session[k].session_token # nextToken
             /\ usuario \in DOMAIN r.map
             /\ r.map[usuario] = [token |-> nextToken, last_active |-> now]
             /\ r.cookie.usuario = usuario
             /\ r.cookie.session_token = nextToken
             /\ auth_outcome(r.cookie, r.map, now) = "ok"
             /\ \A t \in 0..(MaxTokens + 1) \ {nextToken} :
                  auth_outcome([r.cookie EXCEPT !.session_token = t], r.map, now) # "ok"

\* the first login of the run: the map was empty, the requester now authenticates
C2_Witness ==
    /\ resp.op = "login"
    /\ resp.outcome = "Granted"
    /\ nextToken = 2
    /\ Holds(session[resp.client], ACTIVE_USER_SESSIONS)
    /\ ACTIVE_USER_SESSIONS[session[resp.client].usuario] = [token |-> 1, last_active |-> now]

\* the handlers' maps, for every request of the input sets
ResultMaps ==
    { login(c, form[1], form[2], f).map : c \in Clients, form \in LoginForms, f \in BOOLEAN }
    \cup { logout(c).map : c \in Clients }
    \cup { decorated_function(c).map : c \in Clients }
    \cup { cerrar_sesion_usuario_admin(c, u).map : c \in Clients, u \in TargetNames }
    \cup { cambiar_nombre_usuario(c, form[1], form[2], ok).map :
             c \in Clients, form \in RenameForms, ok \in BOOLEAN }

\* C3: a login with force and valid credentials for a user whose entry is within
\* the TTL is Granted a token T2 different from the entry's token T1, the entry
\* then holds T2, and (u, T1) no longer authenticates; it never will again,
\* because no handler puts into the map a token other than a newly generated
\* one or one the map holds already.
C3_ForcedTakeover ==
    /\ \A c \in Clients, form \in LoginForms :
         \A u \in {form[1]}, p \in {form[2]}, usuario \in {sanitizar_texto(form[1])} :
           ( /\ usuario \in DOMAIN ACTIVE_USER_SESSIONS
             /\ now - ACTIVE_USER_SESSIONS[usuario].last_active <= SESSION_TTL
             /\ usuario \in DOMAIN db
             /\ db[usuario].password = p
             /\ Processed(c, usuario, p) )
           => \A r \in {login(c, u, p, TRUE)} :
                /\ r.outcome = "Granted"
                /\ r.forced
                /\ r.map[usuario].token = nextToken
                /\ r.map[usuario].token # ACTIVE_USER_SESSIONS[usuario].token
                /\ r.cookie.session_token = r.map[usuario].token
                /\ \A k \in Clients \ {c} :
                     (session[k].usuario = usuario /\ Holds(session[k], ACTIVE_USER_SESSIONS))
                     => auth_outcome(session[k], r.map, now) = "Invalidated"
    /\ \A t \in Tokens(ACTIVE_USER_SESSIONS) : t < nextToken
    /\ \A map \in ResultMaps : Tokens(map) \subseteq Tokens(ACTIVE_USER_SESSIONS) \cup {nextToken}

\* a forced login has just replaced a session whose browser still presents T1
C3_Witness ==
    /\ resp.op = "login"
    /\ resp.outcome = "Granted"
    /\ resp.forced
    /\ Holds(session[resp.client], ACTIVE_USER_SESSIONS)
    /\ \E k \in Clients \ {resp.client} :
         /\ session[k].usuario = session[resp.client].usuario
         /\ session[k].session_token # NoToken
         /\ session[k].session_token # session[resp.client].session_token
         /\ auth_outcome(session[k], ACTIVE_USER_SESSIONS, now) = "Invalidated"

\* C4: a protected request is authenticated if and only if the map has an
\* entry for the presented user, its token equals the presented token and
\* now - last_active <= SESSION_TTL; on success last_active becomes now and the
\* token is unchanged, so the same request succeeds at every time up to
\* now + SESSION_TTL and fails at every later time.
C4_SlidingExpiration ==
    \A c \in Clients :
      \A r \in {decorated_function(c)} :
        /\ r.outcome = "ok" <=>
             /\ session[c].usuario \in DOMAIN ACTIVE_USER_SESSIONS
             /\ ACTIVE_USER_SESSIONS[session[c].usuario].token = session[c].session_token
             /\ now - ACTIVE_USER_SESSIONS[session[c].usuario].last_active <= SESSION_TTL
        /\ r.outcome = "ok" =>
             /\ r.cookie = session[c]
             /\ r.map = [ACTIVE_USER_SESSIONS EXCEPT ![session[c].usuario].last_active = now]
             /\ \A d \in 0..(SESSION_TTL + ClockStep) :
                  auth_outcome(r.cookie, r.map, now + d) = "ok" <=> d <= SESSION_TTL

\* a request was refused for inactivity: the session, authenticated at its login,
\* was presented again more than SESSION_TTL later
C4_Witness ==
    /\ resp.op = "request"
    /\ resp.outcome = "Expired"
    /\ session[resp.client] = EmptySession

\* C5 as claimed: every failure path of the decorator removes the entry of the
\* presented user and clears the Flask session.
C5_EveryFailureRemovesEntry ==
    \A c \in Clients :
      \A r \in {decorated_function(c)} :
        r.outcome # "ok" =>
          /\ session[c].usuario \notin DOMAIN r.map
          /\ r.cookie = EmptySession

\* C5 as amended: every failure path clears the Flask session; the entry of the
\* presented user is removed on the two expiry paths (no last_active,
\* inactivity beyond the TTL) and the map is left as it was on the others
\* (no identity or token, no entry, token mismatch).
C5_FailureClearsClient ==
    \A c \in Clients :
      \A r \in {decorated_function(c)} :
        r.outcome # "ok" =>
          /\ r.cookie = EmptySession
          /\ (Holds(session[c], ACTIVE_USER_SESSIONS)
              => /\ session[c].usuario \notin DOMAIN r.map
                 /\ r.map = [k \in DOMAIN ACTIVE_USER_SESSIONS \ {session[c].usuario} |->
                               ACTIVE_USER_SESSIONS[k]])
          /\ (~Holds(session[c], ACTIVE_USER_SESSIONS) => r.map = ACTIVE_USER_SESSIONS)

\* a superseded browser was refused and the session that replaced it is intact
C5_Witness ==
    /\ resp.op = "request"
    /\ resp.outcome = "Invalidated"
    /\ session[resp.client] = EmptySession
    /\ \E k \in Clients \ {resp.client} :
         /\ Holds(session[k], ACTIVE_USER_SESSIONS)
         /\ ACTIVE_USER_SESSIONS[session[k].usuario].token = 2

\* C6: logout and the administrative close remove the user's entry when it is
\* present and change nothing else; run for a user with no entry (a second
\* logout included) they answer normally and leave the map as it is (the
\* administrator's own entry carries the last_active its authentication set);
\* afterwards the token issued to the user does not authenticate.
C6_LogoutTerminateIdempotent ==
    /\ \A c \in Clients :
         \A r \in {logout(c)} :
           /\ r.outcome = "ok"
           /\ r.cookie = EmptySession
           /\ r.map = [k \in DOMAIN ACTIVE_USER_SESSIONS \ {session[c].usuario} |->
                         ACTIVE_USER_SESSIONS[k]]
           /\ logout_map(r.cookie, r.map) = r.map
           /\ logout_map(session[c], r.map) = r.map
           /\ \A k \in Clients :
                session[k].usuario = session[c].usuario
                => auth_outcome(IF k = c THEN r.cookie ELSE session[k], r.map, now) # "ok"
    /\ \A c \in Clients, u \in TargetNames :
         ( /\ Holds(session[c], ACTIVE_USER_SESSIONS)
           /\ now - ACTIVE_USER_SESSIONS[session[c].usuario].last_active <= SESSION_TTL
           /\ session[c].usuario \in DOMAIN db
           /\ db[session[c].usuario].rol = 3 )
         => \A r \in {cerrar_sesion_usuario_admin(c, u)},
               refreshed \in {[ACTIVE_USER_SESSIONS EXCEPT
                                  ![session[c].usuario].last_active = now]} :
              /\ r.outcome = IF u = <<>> THEN "NoTarget"
                             ELSE IF u \in DOMAIN refreshed THEN "Closed"
                             ELSE "NoActiveSession"
              /\ r.map = [k \in DOMAIN refreshed \ {u} |-> refreshed[k]]
              /\ cerrar_sesion_map(db, session[c].usuario, r.map, u) = r.map
              /\ \A k \in Clients :
                   session[k].usuario = u => auth_outcome(session[k], r.map, now) # "ok"

\* the administrator closed the session of a user who had none
C6_Witness ==
    /\ resp.op = "terminate"
    /\ resp.outcome = "NoActiveSession"
    /\ Holds(session[resp.client], ACTIVE_USER_SESSIONS)

\* C7: cleanup_expired_sessions removes exactly the entries with
\* now - last_active > SESSION_TTL (or without last_active), counts them, and
\* leaves every other entry as it is, one inactive for exactly SESSION_TTL
\* included; every login that passes the basic field checks runs it first.
C7_CleanupExact ==
    /\ \A m \in {cleanup_expired_sessions(ACTIVE_USER_SESSIONS, now)} :
         /\ \A k \in DOMAIN ACTIVE_USER_SESSIONS :
              /\ k \in DOMAIN m <=>
                   /\ ACTIVE_USER_SESSIONS[k].last_active # NoTime
                   /\ now - ACTIVE_USER_SESSIONS[k].last_active <= SESSION_TTL
              /\ k \in DOMAIN m => m[k] = ACTIVE_USER_SESSIONS[k]
         /\ DOMAIN m \subseteq DOMAIN ACTIVE_USER_SESSIONS
         /\ Cardinality(expired_users(ACTIVE_USER_SESSIONS, now))
              = Cardinality(DOMAIN ACTIVE_USER_SESSIONS) - Cardinality(DOMAIN m)
    /\ \A c \in Clients, form \in LoginForms, f \in BOOLEAN :
         \A u \in {form[1]}, p \in {form[2]}, r \in {login(c, form[1], form[2], f)} :
           /\ r.outcome \in {"Rejected", "Granted", "InvalidCredentials"} <=>
                Processed(c, sanitizar_texto(u), p)
           /\ Processed(c, sanitizar_texto(u), p) =>
             /\ r.cleaned = Cardinality({k \in DOMAIN ACTIVE_USER_SESSIONS :
                                now - ACTIVE_USER_SESSIONS[k].last_active > SESSION_TTL})
             /\ \A k \in DOMAIN ACTIVE_USER_SESSIONS \ {sanitizar_texto(u)} :
                  IF now - ACTIVE_USER_SESSIONS[k].last_active > SESSION_TTL
                  THEN k \notin DOMAIN r.map
                  ELSE k \in DOMAIN r.map /\ r.map[k] = ACTIVE_USER_SESSIONS[k]

\* a login cleaned an expired entry and kept one inactive for exactly the TTL
C7_Witness ==
    /\ resp.op = "login"
    /\ resp.cleaned >= 1
    /\ \E k \in DOMAIN ACTIVE_USER_SESSIONS :
         now - ACTIVE_USER_SESSIONS[k].last_active = SESSION_TTL

\* C8: after a successful change of user name the map has no entry under the
\* old name and has one under the new name, with the token it had and
\* last_active = now; the other entries are unchanged, no token is issued and
\* the requester authenticates under the new name.
C8_RenameMovesSession ==
    \A c \in Clients, form \in RenameForms, ok \in BOOLEAN :
      \A n \in {form[1]}, r \in {cambiar_nombre_usuario(c, form[1], form[2], ok)} :
        r.outcome = "Renamed" =>
          \A old \in {session[c].usuario}, new \in {Strip(n)} :
            /\ ok
            /\ Holds(session[c], ACTIVE_USER_SESSIONS)
            /\ new # old => old \notin DOMAIN r.map
            /\ DOMAIN r.map = (DOMAIN ACTIVE_USER_SESSIONS \ {old}) \cup {new}
            /\ r.map[new] = [token |-> ACTIVE_USER_SESSIONS[old].token, last_active |-> now]
            /\ \A k \in DOMAIN r.map \ {new} : r.map[k] = ACTIVE_USER_SESSIONS[k]
            /\ r.cookie = [session[c] EXCEPT !.usuario = new]
            /\ auth_outcome(r.cookie, r.map, now) = "ok"
            /\ new \in DOMAIN r.tabla
            /\ new # old => old \notin DOMAIN r.tabla

\* a user has changed name while another user's session was in the map
C8_Witness ==
    /\ resp.op = "rename"
    /\ resp.outcome = "Renamed"
    /\ session[resp.client].usuario = eva
    /\ ana \notin DOMAIN ACTIVE_USER_SESSIONS
    /\ Holds(session[resp.client], ACTIVE_USER_SESSIONS)
    /\ Cardinality(DOMAIN ACTIVE_USER_SESSIONS) = 2

\* the age of the session a cookie presents: the time since the login that
\* issued its token
Age(cookie) == now - issued_at[cookie.session_token]

C10_NoDoubleGrant ==
    \A c1, c2 \in Clients :
      ~ ( /\ c1 # c2
          /\ req[c1].outcome = "Granted"
          /\ req[c2].outcome = "Granted"
          /\ req[c1].usuario = req[c2].usuario
          /\ ~req[c1].force_login
          /\ ~req[c2].force_login
          /\ req[c1].existing = NoData
          /\ req[c2].existing = NoData
          /\ req[c1].token # req[c2].token )

----------------------------------------------------------------------------
(* The persistence gateway for events (src/db.py:226-329).  A connection has
   autocommit off: execute changes the transaction's working copy, commit makes
   it the table, rollback (or a connection dropped without commit) discards
   it.  falla tells which step raises: 0 none, 1 the statement, 2 the commit. *)

NoFalla == 0
FallaExecute == 1
FallaCommit == 2

\* faulty variant of transaccion: no rollback, what was executed before the
\* failure stays
transaccion_sin_rollback(tabla, working, falla) ==
    IF falla = FallaExecute THEN tabla ELSE working

\* the outcome of a transaction: working is the store as the statements that
\* were executed left it; it becomes the store only when nothing raised
transaccion(tabla, working, falla) == IF falla = NoFalla THEN working ELSE tabla

\* the first ValueError crear_evento raises, "none" when it raises none
crear_evento_error(nombre, fecha_evento, hora_evento, creador_id, fecha_fin, hora_fin, descripcion) ==
    IF ~validar_texto_seguro(nombre, 100, TRUE) THEN "Nombre de evento invalido"
    ELSE IF ~validar_fecha_formato(fecha_evento) THEN "Fecha de evento invalida"
    ELSE IF ~validar_hora_formato(hora_evento) THEN "Hora de evento invalida"
    ELSE IF ~validar_id(creador_id) THEN "ID de creador invalido"
    ELSE IF descripcion # Vacio /\ ~validar_texto_seguro(descripcion, 500, FALSE)
         THEN "Descripcion invalida"
    ELSE IF fecha_fin # Vacio /\ ~validar_fecha_formato(fecha_fin) THEN "Fecha fin invalida"
    ELSE IF hora_fin # Vacio /\ ~validar_hora_formato(hora_fin) THEN "Hora fin invalida"
    ELSE "none"

\* INSERT INTO eventos: the table with the new row under the next id
insert_evento(tabla, id, nombre, fecha_evento, hora_evento, creador_id, fecha_fin, hora_fin, descripcion) ==
    [x \in DOMAIN tabla \cup {id} |->
        IF x = id
        THEN [nombre |-> nombre, descripcion |-> descripcion, fecha_evento |-> fecha_evento,
              hora_evento |-> hora_evento, creador_evento |-> creador_id,
              fecha_fin |-> fecha_fin, hora_fin |-> hora_fin]
        ELSE tabla[x]]

\* crear_evento: error is "none", a ValueError message or "Exception"
crear_evento(tabla, id, nombre, fecha_evento, hora_evento, creador_id, fecha_fin, hora_fin, descripcion, falla) ==
    LET error == crear_evento_error(nombre, fecha_evento, hora_evento, creador_id,
                                    fecha_fin, hora_fin, descripcion)
    IN
    IF error # "none" THEN [error |-> error, tabla |-> tabla]
    ELSE [error |-> IF falla = NoFalla THEN "none" ELSE "Exception",
          tabla |-> transaccion(tabla,
                                insert_evento(tabla, id, nombre, fecha_evento, hora_evento,
                                              creador_id, fecha_fin, hora_fin, descripcion),
                                falla)]

modificar_evento_error(evento_id, nombre, fecha_evento, hora_evento, fecha_fin, hora_fin, descripcion) ==
    IF ~validar_id(evento_id) THEN "ID de evento invalido"
    ELSE IF ~validar_texto_seguro(nombre, 100, TRUE) THEN "Nombre de evento invalido"
    ELSE IF ~validar_fecha_formato(fecha_evento) THEN "Fecha de evento invalida"
    ELSE IF ~validar_hora_formato(hora_evento) THEN "Hora de evento invalida"
    ELSE IF descripcion # Vacio /\ ~validar_texto_seguro(descripcion, 500, FALSE)
         THEN "Descripcion invalida"
    ELSE IF fecha_fin # Vacio /\ ~validar_fecha_formato(fecha_fin) THEN "Fecha fin invalida"
    ELSE IF hora_fin # Vacio /\ ~validar_hora_formato(hora_fin) THEN "Hora fin invalida"
    ELSE "none"

\* UPDATE eventos SET ... WHERE id = evento_id
update_evento(tabla, evento_id, nombre, fecha_evento, hora_evento, fecha_fin, hora_fin, descripcion) ==
    [x \in DOMAIN tabla |->
        IF x = evento_id
        THEN [tabla[x] EXCEPT !.nombre = nombre, !.fecha_evento = fecha_evento,
                              !.hora_evento = hora_evento, !.fecha_fin = fecha_fin,
                              !.hora_fin = hora_fin, !.descripcion = descripcion]
        ELSE tabla[x]]

modificar_evento(tabla, evento_id, nombre, fecha_evento, hora_evento, fecha_fin, hora_fin, descripcion, falla) ==
    LET error == modificar_evento_error(evento_id, nombre, fecha_evento, hora_evento,
                                        fecha_fin, hora_fin, descripcion)
    IN
    IF error # "none" THEN [error |-> error, tabla |-> tabla]
    ELSE [error |-> IF falla = NoFalla THEN "none" ELSE "Exception",
          tabla |-> transaccion(tabla,
                                update_evento(tabla, evento_id, nombre, fecha_evento,
                                              hora_evento, fecha_fin, hora_fin, descripcion),
                                falla)]

\* DELETE FROM <table> WHERE id = id
delete_row(tabla, id) == [x \in DOMAIN tabla \ {id} |-> tabla[x]]

eliminar_evento(tabla, evento_id, falla) ==
    IF ~validar_id(evento_id) THEN [error |-> "ID de evento invalido", tabla |-> tabla]
    ELSE [error |-> IF falla = NoFalla THEN "none" ELSE "Exception",
          tabla |-> transaccion(tabla, delete_row(tabla, evento_id), falla)]

\* SELECT * FROM eventos [WHERE creador_evento = usuario_id]: the ids read
\* (usuario_id 0 stands for None: no filter)
obtener_eventos(tabla, usuario_id) ==
    IF usuario_id # 0 THEN { x \in DOMAIN tabla : tabla[x].creador_evento = usuario_id }
    ELSE DOMAIN tabla

----------------------------------------------------------------------------
(* The event routes (src/app.py).  Every one is behind @login_required: the
   decorator's result is the route's when it refuses, and the body runs on the
   session map the decorator left.  A form or JSON body is the record
   [nombre, descripcion, fecha_evento, hora_evento, fecha_fin, hora_fin]. *)

\* the answer of a planner route
Answered(auth, outcome, errors, tabla) ==
    [outcome |-> outcome, errors |-> errors, map |-> auth.map, cookie |-> auth.cookie,
     tabla |-> tabla]

\* user['id'] if user else otro
user_id(tabla, usuario, otro) ==
    IF obtener_usuario_por_nombre(tabla, usuario) # NoRow
    THEN obtener_usuario_por_nombre(tabla, usuario).id ELSE otro

\* errors.append(msg) when the check fails
Append1(failed, msg) == IF failed THEN <<msg>> ELSE <<>>

\* src/app.py:437-451, the list of errors of the creation form
crear_evento_view_errors(nombre, fecha_evento, hora_evento_raw, hora_evento, fecha_fin, hora_fin, ahora) ==
    Append1(~validar_no_vacio(nombre), "El nombre no puede estar vacio")
    \o Append1(~validar_longitud(nombre, 100, 3), "Longitud de nombre invalida (3-100)")
    \o Append1(~validar_texto_seguro(nombre, 100, TRUE), "Nombre invalido o demasiado largo")
    \o Append1(~validar_fecha_no_pasada(fecha_evento, ahora.fecha),
               "La fecha del evento no puede ser en el pasado")
    \o Append1(hora_evento_raw # Vacio
               /\ ~validar_fecha_hora_no_pasada(fecha_evento, hora_evento, ahora),
               "No se puede crear un evento con fecha y hora pasadas")
    \o Append1(hora_fin # Vacio
               /\ ~validar_rango_horas(primeros5(hora_evento), primeros5(hora_fin)),
               "La hora fin debe ser posterior a la hora inicio")
    \o Append1(fecha_fin # Vacio /\ ~validar_fecha_no_pasada(fecha_fin, ahora.fecha),
               "La fecha fin no puede ser en el pasado")

\* the answer after crear_evento returned or raised: a ValueError is reported as
\* a validation error, any other exception as a server error
crear_evento_answer(auth, r) ==
    IF r.error = "none" THEN Answered(auth, "Created", <<>>, r.tabla)
    ELSE IF r.error = "Exception" THEN Answered(auth, "ServerError", <<"Exception">>, r.tabla)
    ELSE Answered(auth, "ValidationError", <<r.error>>, r.tabla)

\* POST /eventos/nuevo (src/app.py:415-483)
crear_evento_view(c, form, falla) ==
    LET auth == decorated_function(c)
        nombre == sanitizar_texto(form.nombre)
        hora_evento == primeros5(IF form.hora_evento # Vacio THEN form.hora_evento ELSE H0000)
        descripcion == sanitizar_texto(form.descripcion)
        errors == crear_evento_view_errors(nombre, form.fecha_evento, form.hora_evento,
                                           hora_evento, form.fecha_fin, form.hora_fin, reloj)
    IN
    IF auth.outcome # "ok" THEN Answered(auth, auth.outcome, <<>>, eventos)
    ELSE IF errors # <<>> THEN Answered(auth, "ValidationError", errors, eventos)
    ELSE crear_evento_answer(auth,
             crear_evento(eventos, nextId.evento, nombre, form.fecha_evento, hora_evento,
                          user_id(db, session[c].usuario, 1), form.fecha_fin, form.hora_fin,
                          descripcion, falla))

\* src/app.py:895-924, the first check of the creation API that fails
crear_evento_api_error(nombre, fecha_evento, hora_evento_raw, hora_evento, fecha_fin, hora_fin, descripcion, ahora) ==
    IF ~validar_texto_seguro(nombre, 100, TRUE) THEN "Nombre invalido"
    ELSE IF ~validar_fecha_formato(fecha_evento) THEN "Fecha invalida"
    ELSE IF ~validar_fecha_no_pasada(fecha_evento, ahora.fecha)
         THEN "Fecha debe ser hoy o futura"
    ELSE IF hora_evento_raw # Vacio
            /\ ~validar_fecha_hora_no_pasada(fecha_evento, hora_evento, ahora)
         THEN "No se puede crear un evento con fecha y hora pasadas"
    ELSE IF ~validar_hora_formato(hora_evento) THEN "Hora invalida"
    ELSE IF fecha_fin # Vacio /\ ~validar_fecha_formato(fecha_fin) THEN "Fecha fin invalida"
    ELSE IF fecha_fin # Vacio /\ ~validar_fechas(fecha_evento, fecha_fin)
         THEN "Fecha fin debe ser posterior a inicio"
    ELSE IF hora_fin # Vacio /\ ~validar_hora_formato(hora_fin) THEN "Hora fin invalida"
    ELSE IF hora_fin # Vacio /\ ~validar_rango_horas(hora_evento, hora_fin)
         THEN "Hora fin debe ser posterior a hora inicio"
    ELSE IF descripcion # Vacio /\ ~validar_texto_seguro(descripcion, 500, FALSE)
         THEN "Descripcion invalida"
    ELSE "none"

\* POST /api/eventos (src/app.py:871-956)
crear_evento_api(c, data, falla) ==
    LET auth == decorated_function(c)
        nombre == sanitizar_texto(data.nombre)
        descripcion == sanitizar_texto(data.descripcion)
        hora_evento == primeros5(IF data.hora_evento # Vacio THEN data.hora_evento ELSE H0000)
        fecha_fin == limpiar_valor_opcional(data.fecha_fin)
        hora_fin == primeros5(limpiar_valor_opcional(data.hora_fin))
        error == crear_evento_api_error(nombre, data.fecha_evento, data.hora_evento,
                                        hora_evento, fecha_fin, hora_fin, descripcion, reloj)
    IN
    IF auth.outcome # "ok" THEN Answered(auth, auth.outcome, <<>>, eventos)
    ELSE IF error # "none" THEN Answered(auth, "ValidationError", <<error>>, eventos)
    ELSE crear_evento_answer(auth,
             crear_evento(eventos, nextId.evento, nombre, data.fecha_evento, hora_evento,
                          user_id(db, session[c].usuario, 1), fecha_fin, hora_fin,
                          descripcion, falla))

\* faulty variant of actualizar_evento_api_error: the checks in the order
\* required, format, domain, cross-field
actualizar_evento_api_error_orden_fijo(nombre, fecha_evento, hora_inicio_raw, hora_inicio, fecha_fin, hora_fin, descripcion, ahora) ==
    IF ~validar_texto_seguro(nombre, 100, TRUE) THEN "Nombre invalido"
    ELSE IF fecha_evento = Vacio THEN "Falta fecha de evento"
    ELSE IF ~validar_fecha_formato(fecha_evento) THEN "Formato de fecha invalido"
    ELSE IF ~validar_hora_formato(hora_inicio) THEN "Hora de evento invalida"
    ELSE IF descripcion # Vacio /\ ~validar_texto_seguro(descripcion, 500, FALSE)
         THEN "Descripcion invalida"
    ELSE IF fecha_fin # Vacio /\ ~validar_fecha_formato(fecha_fin)
         THEN "Formato de fecha fin invalido"
    ELSE IF hora_fin # Vacio /\ ~validar_hora_formato(hora_fin)
         THEN "Formato de hora fin invalido"
    ELSE IF ~validar_fecha_no_pasada(fecha_evento, ahora.fecha)
         THEN "Fecha de evento debe ser posterior a hoy"
    ELSE IF hora_inicio_raw # Vacio
            /\ ~validar_fecha_hora_no_pasada(fecha_evento, hora_inicio, ahora)
         THEN "No se puede crear un evento con fecha y hora pasadas"
    ELSE IF fecha_fin # Vacio /\ ~validar_fecha_no_pasada(fecha_fin, ahora.fecha)
         THEN "Fecha de fin debe ser posterior a hoy"
    ELSE IF hora_fin # Vacio /\ ~validar_rango_horas(hora_inicio, hora_fin)
         THEN "La hora fin debe ser posterior a la hora inicio"
    ELSE IF ~validar_fechas(fecha_evento, fecha_fin)
         THEN "Fecha de fin debe ser posterior a fecha de inicio"
    ELSE "none"

\* src/app.py:790-843, the first check of the update API that fails
actualizar_evento_api_error(nombre, fecha_evento, hora_inicio_raw, hora_inicio, fecha_fin, hora_fin, descripcion, ahora) ==
    IF ~validar_texto_seguro(nombre, 100, TRUE) THEN "Nombre invalido"
    ELSE IF fecha_evento = Vacio THEN "Falta fecha de evento"
    ELSE IF ~validar_fecha_formato(fecha_evento) THEN "Formato de fecha invalido"
    ELSE IF ~validar_fecha_no_pasada(fecha_evento, ahora.fecha)
         THEN "Fecha de evento debe ser posterior a hoy"
    ELSE IF hora_inicio_raw # Vacio
            /\ ~validar_fecha_hora_no_pasada(fecha_evento, hora_inicio, ahora)
         THEN "No se puede crear un evento con fecha y hora pasadas"
    ELSE IF ~validar_hora_formato(hora_inicio) THEN "Hora de evento invalida"
    ELSE IF descripcion # Vacio /\ ~validar_texto_seguro(descripcion, 500, FALSE)
         THEN "Descripcion invalida"
    ELSE IF hora_fin # Vacio /\ ~validar_rango_horas(hora_inicio, hora_fin)
         THEN "La hora fin debe ser posterior a la hora inicio"
    ELSE IF fecha_fin # Vacio /\ ~validar_fecha_formato(fecha_fin)
         THEN "Formato de fecha fin invalido"
    ELSE IF fecha_fin # Vacio /\ ~validar_fecha_no_pasada(fecha_fin, ahora.fecha)
         THEN "Fecha de fin debe ser posterior a hoy"
    ELSE IF hora_fin # Vacio /\ ~validar_hora_formato(hora_fin)
         THEN "Formato de hora fin invalido"
    ELSE IF ~validar_fechas(fecha_evento, fecha_fin)
         THEN "Fecha de fin debe ser posterior a fecha de inicio"
    ELSE "none"

\* lines 773-778: who may change the row, "ok" when the requester may
permiso(tabla_usuarios, usuario, tabla, id, campo) ==
    IF id \notin DOMAIN tabla THEN "NotFound"
    ELSE IF ~es_admin(tabla_usuarios, usuario)
            /\ tabla[id][campo] # user_id(tabla_usuarios, usuario, 0) THEN "Forbidden"
    ELSE "ok"

\* PUT /api/eventos/<evento_id> (src/app.py:766-868)
actualizar_evento_api(c, evento_id, data, falla) ==
    LET auth == decorated_function(c)
        acceso == permiso(db, session[c].usuario, eventos, evento_id, "creador_evento")
        nombre == sanitizar_texto(data.nombre)
        descripcion == sanitizar_texto(data.descripcion)
        hora_inicio == primeros5(IF data.hora_evento # Vacio THEN data.hora_evento ELSE H0000)
        fecha_fin == limpiar_valor_opcional(data.fecha_fin)
        hora_fin_raw == primeros5(limpiar_valor_opcional(data.hora_fin))
        \* line 838: an end date without end time ends at the start time
        hora_fin == IF fecha_fin # Vacio /\ hora_fin_raw = Vacio THEN hora_inicio
                    ELSE hora_fin_raw
        error == actualizar_evento_api_error(nombre, data.fecha_evento, data.hora_evento,
                                             hora_inicio, fecha_fin, hora_fin_raw,
                                             descripcion, reloj)
        r == modificar_evento(eventos, evento_id, nombre, data.fecha_evento, hora_inicio,
                              fecha_fin, hora_fin, descripcion, falla)
    IN
    IF auth.outcome # "ok" THEN Answered(auth, auth.outcome, <<>>, eventos)
    ELSE IF acceso # "ok" THEN Answered(auth, acceso, <<acceso>>, eventos)
    ELSE IF error # "none" THEN Answered(auth, "ValidationError", <<error>>, eventos)
    ELSE IF r.error = "Exception" THEN Answered(auth, "ServerError", <<"Exception">>, r.tabla)
    ELSE IF r.error # "none" THEN Answered(auth, "ValidationError", <<r.error>>, r.tabla)
    \* lines 858-864: the row is read again among the requester's own events
    ELSE IF evento_id \notin obtener_eventos(r.tabla, user_id(db, session[c].usuario, 0))
         THEN Answered(auth, "ServerError", <<"Evento actualizado pero no encontrado">>,
                       r.tabla)
    ELSE Answered(auth, "Updated", <<>>, r.tabla)

\* POST /eventos/<id>/eliminar (src/app.py:508-525)
eliminar_evento_view(c, id, falla) ==
    LET auth == decorated_function(c)
        acceso == permiso(db, session[c].usuario, eventos, id, "creador_evento")
        r == eliminar_evento(eventos, id, falla)
    IN
    IF auth.outcome # "ok" THEN Answered(auth, auth.outcome, <<>>, eventos)
    ELSE IF acceso # "ok" THEN Answered(auth, acceso, <<acceso>>, eventos)
    ELSE IF r.error # "none" THEN Answered(auth, "ServerError", <<r.error>>, r.tabla)
    ELSE Answered(auth, "Deleted", <<>>, r.tabla)

----------------------------------------------------------------------------
(* SpecEvents: two logged-in users and the event routes *)

MaxEventos == 1    \* rows inserted into eventos in one behaviour

gym == <<"g", "y", "m">>
xss == <<"<", "S", "c", "r", "i", "p", "t">>

Form(nombre, fecha_evento, hora_evento, fecha_fin, hora_fin) ==
    [nombre |-> nombre, descripcion |-> Vacio, fecha_evento |-> fecha_evento,
     hora_evento |-> hora_evento, fecha_fin |-> fecha_fin, hora_fin |-> hora_fin]

NoForm == Form(Vacio, Vacio, Vacio, Vacio, Vacio)

\* the event forms and JSON bodies sent
EventForms ==
    { Form(gym, Manana, H0900, Vacio, Vacio),
      Form(gym, Manana, Vacio, NullText, NullText),
      Form(gym, PasadoManana, H0900, Manana, Vacio),
      Form(gym, Manana, H0900, Manana, H0859),
      Form(gym, Manana, H0900, PasadoManana, H1800),
      Form(gym, Ayer, H0900, Vacio, Vacio),
      Form(gym, Hoy, H0859, Vacio, Vacio),
      Form(Vacio, Ayer, H0900, Vacio, Vacio),
      Form(xss, Manana, HoraInvalida, Vacio, Vacio),
      Form(gym, Manana, H1800, FechaInvalida, H0900),
      Form(gym, Vacio, H0900, Vacio, Vacio) }

\* the failures of a transaction of one statement a route is run with
Fallas == {NoFalla, FallaExecute}

\* the answer to a planner request, with the request it answers
Respuesta(op, c, r, id, input) ==
    [op |-> op, client |-> c, outcome |-> r.outcome, errors |-> r.errors, id |-> id,
     input |-> input]

\* an event route handled to completion
EventoStep(op, c, r, id, input) ==
    /\ r.outcome = "Created" => nextId.evento <= MaxEventos
    /\ ACTIVE_USER_SESSIONS' = r.map
    /\ session' = [session EXCEPT ![c] = r.cookie]
    /\ eventos' = r.tabla
    /\ nextId' = IF r.outcome = "Created" THEN [nextId EXCEPT !.evento = @ + 1] ELSE nextId
    /\ resp' = Respuesta(op, c, r, id, input)
    /\ UNCHANGED <<now, db, nextToken, issued_at, req, tareas, reloj, call, cacheVars>>

CrearEventoView(c, form, falla) ==
    \E r \in {crear_evento_view(c, form, falla)} : EventoStep("crear_evento_view", c, r, 0, form)

CrearEventoApi(c, data, falla) ==
    \E r \in {crear_evento_api(c, data, falla)} : EventoStep("crear_evento_api", c, r, 0, data)

ActualizarEventoApi(c, evento_id, data, falla) ==
    \E r \in {actualizar_evento_api(c, evento_id, data, falla)} :
        EventoStep("actualizar_evento_api", c, r, evento_id, data)

EliminarEventoView(c, id, falla) ==
    \E r \in {eliminar_evento_view(c, id, falla)} :
        EventoStep("eliminar_evento_view", c, r, id, NoForm)

\* date.today() one day later
DiaSiguiente(f) ==
    IF f[3] < DaysInMonth(f[1], f[2]) THEN <<f[1], f[2], f[3] + 1>>
    ELSE IF f[2] < 12 THEN <<f[1], f[2] + 1, 1>>
    ELSE <<f[1] + 1, 1, 1>>

\* midnight passes on the server, at most limite days after the start
Amanece(limite) ==
    /\ toordinal(reloj.fecha) - toordinal(Hoy) < limite
    /\ reloj' = [reloj EXCEPT !.fecha = DiaSiguiente(@)]
    /\ UNCHANGED <<now, db, ACTIVE_USER_SESSIONS, session, nextToken, issued_at, resp, req,
                   eventos, tareas, nextId, call, cacheVars>>

----------------------------------------------------------------------------
(* The persistence gateway for tasks (src/db.py:351-481) *)

\* the first ValueError crear_tarea raises, "none" when it raises none
crear_tarea_error(nombre, descripcion, fecha_limite, prioridad, creador_id, estado, hora_evento) ==
    IF ~validar_texto_seguro(nombre, 100, TRUE) THEN "Nombre de tarea invalido"
    ELSE IF descripcion # Vacio /\ ~validar_texto_seguro(descripcion, 500, FALSE)
         THEN "Descripcion invalida"
    ELSE IF ~validar_fecha_formato(fecha_limite) THEN "Fecha limite invalida"
    ELSE IF ~validar_prioridad(JInt(prioridad)) THEN "Prioridad invalida (debe ser 1, 2 o 3)"
    ELSE IF ~validar_id(creador_id) THEN "ID de creador invalido"
    ELSE IF ~validar_estado(JInt(estado)) THEN "Estado invalido (debe ser 0 o 1)"
    ELSE IF hora_evento # Vacio /\ ~validar_hora_formato(hora_evento) THEN "Hora invalida"
    ELSE "none"

\* INSERT INTO tareas
insert_tarea(tabla, id, nombre, descripcion, fecha_limite, prioridad, creador_id, estado, hora_evento) ==
    [x \in DOMAIN tabla \cup {id} |->
        IF x = id
        THEN [nombre |-> nombre, descripcion |-> descripcion, fecha_limite |-> fecha_limite,
              hora_evento |-> hora_evento, prioridad |-> prioridad,
              creador_tarea |-> creador_id, estado |-> estado]
        ELSE tabla[x]]

crear_tarea(tabla, id, nombre, descripcion, fecha_limite, prioridad, creador_id, estado, hora_evento, falla) ==
    LET error == crear_tarea_error(nombre, descripcion, fecha_limite, prioridad, creador_id,
                                   estado, hora_evento)
    IN
    IF error # "none" THEN [error |-> error, tabla |-> tabla]
    ELSE [error |-> IF falla = NoFalla THEN "none" ELSE "Exception",
          tabla |-> transaccion(tabla,
                                insert_tarea(tabla, id, nombre, descripcion, fecha_limite,
                                             prioridad, creador_id, estado, hora_evento),
                                falla)]

modificar_tarea_error(tarea_id, nombre, descripcion, fecha_limite, prioridad, estado, hora_evento) ==
    IF ~validar_id(tarea_id) THEN "ID de tarea invalido"
    ELSE IF ~validar_texto_seguro(nombre, 100, TRUE) THEN "Nombre de tarea invalido"
    ELSE IF descripcion # Vacio /\ ~validar_texto_seguro(descripcion, 500, FALSE)
         THEN "Descripcion invalida"
    ELSE IF ~validar_fecha_formato(fecha_limite) THEN "Fecha limite invalida"
    ELSE IF ~validar_prioridad(JInt(prioridad)) THEN "Prioridad invalida (debe ser 1, 2 o 3)"
    ELSE IF ~validar_estado(JInt(estado)) THEN "Estado invalido (debe ser 0 o 1)"
    ELSE IF hora_evento # Vacio /\ ~validar_hora_formato(hora_evento) THEN "Hora invalida"
    ELSE "none"

\* UPDATE tareas SET ... WHERE id = tarea_id
update_tarea(tabla, tarea_id, nombre, descripcion, fecha_limite, prioridad, estado, hora_evento) ==
    [x \in DOMAIN tabla |->
        IF x = tarea_id
        THEN [tabla[x] EXCEPT !.nombre = nombre, !.descripcion = descripcion,
                              !.fecha_limite = fecha_limite, !.hora_evento = hora_evento,
                              !.prioridad = prioridad, !.estado = estado]
        ELSE tabla[x]]

modificar_tarea(tabla, tarea_id, nombre, descripcion, fecha_limite, prioridad, estado, hora_evento, falla) ==
    LET error == modificar_tarea_error(tarea_id, nombre, descripcion, fecha_limite, prioridad,
                                       estado, hora_evento)
    IN
    IF error # "none" THEN [error |-> error, tabla |-> tabla]
    ELSE [error |-> IF falla = NoFalla THEN "none" ELSE "Exception",
          tabla |-> transaccion(tabla,
                                update_tarea(tabla, tarea_id, nombre, descripcion,
                                             fecha_limite, prioridad, estado, hora_evento),
                                falla)]

eliminar_tarea(tabla, tarea_id, falla) ==
    IF ~validar_id(tarea_id) THEN [error |-> "ID de tarea invalido", tabla |-> tabla]
    ELSE [error |-> IF falla = NoFalla THEN "none" ELSE "Exception",
          tabla |-> transaccion(tabla, delete_row(tabla, tarea_id), falla)]

\* faulty variant of actualizar_estado_tarea: the state is written unchecked
actualizar_estado_tarea_sin_validar(tabla, tarea_id, estado, falla) ==
    [error |-> "none",
     tabla |-> [x \in DOMAIN tabla |->
                   IF x = tarea_id THEN [tabla[x] EXCEPT !.estado = estado] ELSE tabla[x]]]

\* UPDATE tareas SET estado = estado WHERE id = tarea_id
actualizar_estado_tarea(tabla, tarea_id, estado, falla) ==
    IF ~validar_id(tarea_id) THEN [error |-> "ID de tarea invalido", tabla |-> tabla]
    ELSE IF ~validar_estado(JInt(estado))
         THEN [error |-> "Estado invalido (debe ser 0 o 1)", tabla |-> tabla]
    ELSE [error |-> IF falla = NoFalla THEN "none" ELSE "Exception",
          tabla |-> transaccion(tabla,
                                [x \in DOMAIN tabla |->
                                    IF x = tarea_id THEN [tabla[x] EXCEPT !.estado = estado]
                                    ELSE tabla[x]],
                                falla)]

\* SELECT * FROM tareas [WHERE creador_tarea = usuario_id]: the ids read
obtener_tareas(tabla, usuario_id) ==
    IF usuario_id # 0 THEN { x \in DOMAIN tabla : tabla[x].creador_tarea = usuario_id }
    ELSE DOMAIN tabla

----------------------------------------------------------------------------
(* The task routes (src/app.py).  A form or JSON body is the record
   [nombre, descripcion, fecha_limite, hora_evento, prioridad, estado], its
   priority and state being values as received. *)

\* src/app.py:558-571, the list of errors of the creation form
crear_tarea_view_errors(nombre, descripcion, fecha_limite, prioridad, ahora) ==
    Append1(~validar_no_vacio(nombre), "El nombre no puede estar vacio")
    \o Append1(~validar_longitud(nombre, 100, 3), "Longitud de nombre invalida (3-100)")
    \o Append1(~validar_fecha_formato(fecha_limite), "Fecha limite invalida")
    \o Append1(~validar_fecha_no_pasada(fecha_limite, ahora.fecha),
               "La fecha limite no puede ser pasada")
    \o Append1(~validar_prioridad(prioridad), "Prioridad invalida (debe ser 1, 2 o 3)")
    \o Append1(descripcion # Vacio /\ ~validar_longitud(descripcion, 500, 0),
               "Descripcion demasiado larga (max 500)")

\* request.form.get(...).strip(): a form field is a text
form_text(v) == IF v.kind = "text" THEN JText(Strip(v.texto)) ELSE JText(<<>>)

\* POST /tareas/nueva (src/app.py:541-598)
crear_tarea_view(c, form, falla) ==
    LET auth == decorated_function(c)
        nombre == sanitizar_texto(form.nombre)
        descripcion == sanitizar_texto(form.descripcion)
        prioridad == form_text(form.prioridad)
        errors == crear_tarea_view_errors(nombre, descripcion, form.fecha_limite, prioridad,
                                          reloj)
    IN
    IF auth.outcome # "ok" THEN Answered(auth, auth.outcome, <<>>, tareas)
    ELSE IF errors # <<>> THEN Answered(auth, "ValidationError", errors, tareas)
    ELSE crear_evento_answer(auth,
             crear_tarea(tareas, nextId.tarea, nombre, descripcion, form.fecha_limite,
                         int(prioridad), user_id(db, session[c].usuario, 1), 0,
                         form.hora_evento, falla))

\* POST /tareas/<id>/eliminar (src/app.py:607-622)
eliminar_tarea_view(c, id, falla) ==
    LET auth == decorated_function(c)
        acceso == permiso(db, session[c].usuario, tareas, id, "creador_tarea")
        r == eliminar_tarea(tareas, id, falla)
    IN
    IF auth.outcome # "ok" THEN Answered(auth, auth.outcome, <<>>, tareas)
    ELSE IF acceso # "ok" THEN Answered(auth, acceso, <<acceso>>, tareas)
    ELSE IF r.error # "none" THEN Answered(auth, "ServerError", <<r.error>>, r.tabla)
    ELSE Answered(auth, "Deleted", <<>>, r.tabla)

\* POST /tareas/<id>/estado (src/app.py:640-650): int() is outside the try, the
\* gateway's exceptions are answered with success false and status 500
actualizar_estado_tarea_view(c, id, estado_raw, falla) ==
    LET auth == decorated_function(c)
        \* data.get('estado', 0)
        estado == IF estado_raw.kind = "none" THEN JInt(0) ELSE estado_raw
        r == actualizar_estado_tarea(tareas, id, int(estado), falla)
    IN
    IF auth.outcome # "ok" THEN Answered(auth, auth.outcome, <<>>, tareas)
    ELSE IF int_raises(estado) THEN Answered(auth, "ServerError", <<"Exception">>, tareas)
    ELSE IF r.error # "none" THEN Answered(auth, "ServerError", <<r.error>>, r.tabla)
    ELSE Answered(auth, "Toggled", <<>>, r.tabla)

\* lines 1023-1030: the state of the body as an integer
estado_de(estado_raw) ==
    IF estado_raw.kind = "none" THEN 0
    ELSE IF ~int_raises(estado_raw) THEN int(estado_raw)
    ELSE IF estado_raw.texto # <<>> /\ ToLower(Head(estado_raw.texto)) = "c" THEN 1
    ELSE 0

\* src/app.py:1001-1036, the first check of the update API that fails
actualizar_tarea_api_error(nombre, descripcion, fecha_limite, prioridad_raw, estado_raw) ==
    IF ~validar_no_vacio(nombre) THEN "Nombre vacio"
    ELSE IF ~validar_longitud(nombre, 100, 3)
         THEN "Nombre demasiado corto (minimo 3) o largo (maximo 100)"
    ELSE IF ~validar_fecha_formato(fecha_limite) THEN "Fecha limite invalida"
    ELSE IF int_raises(prioridad_raw) THEN "Prioridad invalida"
    ELSE IF ~validar_prioridad(JInt(int(prioridad_raw))) THEN "Prioridad invalida (1,2,3)"
    ELSE IF ~validar_estado(JInt(estado_de(estado_raw))) THEN "Estado invalido (0 o 1)"
    ELSE IF descripcion # Vacio /\ ~validar_longitud(descripcion, 500, 0)
         THEN "Descripcion demasiado larga (max 500)"
    ELSE "none"

\* PUT /api/tareas/<tarea_id> (src/app.py:962-1057)
actualizar_tarea_api(c, tarea_id, data, falla) ==
    LET auth == decorated_function(c)
        acceso == permiso(db, session[c].usuario, tareas, tarea_id, "creador_tarea")
        nombre == sanitizar_texto(data.nombre)
        descripcion == sanitizar_texto(data.descripcion)
        hora_evento_raw == primeros5(data.hora_evento)
        \* lines 995-996: 00:00 on a task without time means no time
        hora_evento == IF hora_evento_raw = H0000 /\ tareas[tarea_id].hora_evento = Vacio
                       THEN Vacio ELSE hora_evento_raw
        \* data.get('prioridad', 1)
        prioridad_raw == IF data.prioridad.kind = "none" THEN JInt(1) ELSE data.prioridad
        error == actualizar_tarea_api_error(nombre, descripcion, data.fecha_limite,
                                            prioridad_raw, data.estado)
        r == modificar_tarea(tareas, tarea_id, nombre, descripcion, data.fecha_limite,
                             int(prioridad_raw), estado_de(data.estado), hora_evento, falla)
    IN
    IF auth.outcome # "ok" THEN Answered(auth, auth.outcome, <<>>, tareas)
    ELSE IF acceso # "ok" THEN Answered(auth, acceso, <<acceso>>, tareas)
    ELSE IF error # "none" THEN Answered(auth, "ValidationError", <<error>>, tareas)
    ELSE IF r.error = "Exception" THEN Answered(auth, "ServerError", <<"Error interno">>, r.tabla)
    ELSE IF r.error # "none" THEN Answered(auth, "ValidationError", <<r.error>>, r.tabla)
    \* lines 1049-1054: the row is read again among the requester's own tasks
    ELSE IF tarea_id \notin obtener_tareas(r.tabla, user_id(db, session[c].usuario, 0))
         THEN Answered(auth, "ServerError", <<"Tarea actualizada pero no encontrada">>,
                       r.tabla)
    ELSE Answered(auth, "Updated", <<>>, r.tabla)

\* POST /admin/eliminar-tarea (src/app.py:1186-1208); tarea_id is the form field
eliminar_tarea_admin(c, tarea_id, falla) ==
    LET auth == decorated_function(c)
        r == eliminar_tarea(tareas, int(tarea_id), falla)
    IN
    IF auth.outcome # "ok" THEN Answered(auth, auth.outcome, <<>>, tareas)
    ELSE IF ~es_admin(db, session[c].usuario)
         THEN Answered(auth, "NoPermission", <<"No tienes permisos de administrador">>, tareas)
    ELSE IF tarea_id.kind = "none" \/ tarea_id.texto = <<>>
         THEN Answered(auth, "NoTarget", <<"ID de tarea no proporcionado">>, tareas)
    ELSE IF int_raises(tarea_id)
         THEN Answered(auth, "Error", <<"Error al eliminar tarea">>, tareas)
    ELSE IF r.error # "none" THEN Answered(auth, "Error", <<"Error al eliminar tarea">>, r.tabla)
    ELSE Answered(auth, "Deleted", <<>>, r.tabla)

\* POST /admin/eliminar-evento (src/app.py:1161-1183)
eliminar_evento_admin(c, evento_id, falla) ==
    LET auth == decorated_function(c)
        r == eliminar_evento(eventos, int(evento_id), falla)
    IN
    IF auth.outcome # "ok" THEN Answered(auth, auth.outcome, <<>>, eventos)
    ELSE IF ~es_admin(db, session[c].usuario)
         THEN Answered(auth, "NoPermission", <<"No tienes permisos de administrador">>, eventos)
    ELSE IF evento_id.kind = "none" \/ evento_id.texto = <<>>
         THEN Answered(auth, "NoTarget", <<"ID de evento no proporcionado">>, eventos)
    ELSE IF int_raises(evento_id)
         THEN Answered(auth, "Error", <<"Error al eliminar evento">>, eventos)
    ELSE IF r.error # "none" THEN Answered(auth, "Error", <<"Error al eliminar evento">>, r.tabla)
    ELSE Answered(auth, "Deleted", <<>>, r.tabla)

----------------------------------------------------------------------------
(* SpecTasks: two logged-in users and the task routes *)

MaxTareas == 1     \* rows inserted into tareas in one behaviour

TForm(nombre, fecha_limite, hora_evento, prioridad, estado) ==
    [nombre |-> nombre, descripcion |-> Vacio, fecha_limite |-> fecha_limite,
     hora_evento |-> hora_evento, prioridad |-> prioridad, estado |-> estado]

NoTForm == TForm(Vacio, Vacio, Vacio, JNone, JNone)

\* the forms of POST /tareas/nueva
TaskForms ==
    { TForm(gym, Manana, Vacio, JText(<<"2">>), JNone),
      TForm(gym, Manana, H0900, JText(<<" ", "3">>), JNone),
      TForm(gym, Manana, H0900, JText(<<"5">>), JNone),
      TForm(gym, Ayer, Vacio, JText(<<"1">>), JNone),
      TForm(Vacio, FechaInvalida, Vacio, JText(<<"x">>), JNone),
      TForm(gym, Manana, HoraInvalida, JText(<<"1">>), JNone) }

\* the JSON bodies of PUT /api/tareas/<id>
TaskBodies ==
    { TForm(gym, Manana, H0900, JInt(3), JInt(1)),
      TForm(gym, Manana, Vacio, JInt(4), JInt(0)),
      TForm(gym, Manana, Vacio, JInt(0), JInt(0)),
      TForm(gym, Manana, Vacio, JInt(2), JInt(2)),
      TForm(gym, Ayer, H090000, JFloat(25), JText(<<"C", "o", "m", "p">>)),
      TForm(gym, Manana, H0000, JNone, JText(<<"x">>)),
      TForm(gym, Manana, Vacio, JText(<<"x">>), JNone),
      TForm(ab, Manana, Vacio, JInt(1), JInt(1)),
      TForm(gym, FechaInvalida, Vacio, JInt(5), JInt(5)) }

\* the values of 'estado' sent to POST /tareas/<id>/estado
EstadoValues == {JInt(0), JInt(1), JInt(2), JInt(-1), JText(<<"1">>), JText(<<"x">>), JNone}

\* the values of the form field tarea_id or evento_id of the admin panel
IdFields == {JText(<<"1">>), JText(<<"0">>), JText(<<"x">>), JText(<<>>)}

\* a task route handled to completion
TareaStep(op, c, r, id, input) ==
    /\ r.outcome = "Created" => nextId.tarea <= MaxTareas
    /\ ACTIVE_USER_SESSIONS' = r.map
    /\ session' = [session EXCEPT ![c] = r.cookie]
    /\ tareas' = r.tabla
    /\ nextId' = IF r.outcome = "Created" THEN [nextId EXCEPT !.tarea = @ + 1] ELSE nextId
    /\ resp' = Respuesta(op, c, r, id, input)
    /\ UNCHANGED <<now, db, nextToken, issued_at, req, eventos, reloj, call, cacheVars>>

CrearTareaView(c, form, falla) ==
    \E r \in {crear_tarea_view(c, form, falla)} : TareaStep("crear_tarea_view", c, r, 0, form)

ActualizarTareaApi(c, tarea_id, data, falla) ==
    \E r \in {actualizar_tarea_api(c, tarea_id, data, falla)} :
        TareaStep("actualizar_tarea_api", c, r, tarea_id, data)

EliminarTareaView(c, id, falla) ==
    \E r \in {eliminar_tarea_view(c, id, falla)} :
        TareaStep("eliminar_tarea_view", c, r, id, NoTForm)

ActualizarEstadoTareaView(c, id, estado_raw, falla) ==
    \E r \in {actualizar_estado_tarea_view(c, id, estado_raw, falla)} :
        TareaStep("actualizar_estado_tarea_view", c, r, id,
                  [NoTForm EXCEPT !.estado = estado_raw])

EliminarTareaAdmin(c, tarea_id, falla) ==
    \E r \in {eliminar_tarea_admin(c, tarea_id, falla)} :
        TareaStep("eliminar_tarea_admin", c, r,
                  IF int_raises(tarea_id) THEN 0 ELSE int(tarea_id), NoTForm)

EliminarEventoAdmin(c, evento_id, falla) ==
    \E r \in {eliminar_evento_admin(c, evento_id, falla)} :
        EventoStep("eliminar_evento_admin", c, r,
                   IF int_raises(evento_id) THEN 0 ELSE int(evento_id), NoForm)

DiasEventos == 1   \* days that pass in the specification of the event routes

NextEvents ==
    \/ Amanece(DiasEventos)
    \/ LoginUnrecorded("c1", ana, pwA, FALSE)
    \/ LoginUnrecorded("c2", adm, pwR, FALSE)
    \/ \E c \in Clients, form \in EventForms, falla \in Fallas : CrearEventoView(c, form, falla)
    \/ \E c \in Clients, data \in EventForms, falla \in Fallas : CrearEventoApi(c, data, falla)
    \/ \E c \in Clients, id \in 1..MaxEventos, data \in EventForms, falla \in Fallas :
           ActualizarEventoApi(c, id, data, falla)
    \/ \E c \in Clients, id \in 1..MaxEventos, falla \in Fallas :
           EliminarEventoView(c, id, falla)
    \/ \E c \in Clients, id \in IdFields, falla \in Fallas : EliminarEventoAdmin(c, id, falla)

SpecEvents == Init /\ [][NextEvents]_vars

NextTasks ==
    \/ LoginUnrecorded("c1", ana, pwA, FALSE)
    \/ LoginUnrecorded("c2", adm, pwR, FALSE)
    \/ \E c \in Clients, form \in TaskForms, falla \in Fallas : CrearTareaView(c, form, falla)
    \/ \E c \in Clients, id \in 1..MaxTareas, data \in TaskBodies, falla \in Fallas :
           ActualizarTareaApi(c, id, data, falla)
    \/ \E c \in Clients, id \in 1..MaxTareas, falla \in Fallas : EliminarTareaView(c, id, falla)
    \/ \E c \in Clients, id \in 1..MaxTareas, estado \in EstadoValues, falla \in Fallas :
           ActualizarEstadoTareaView(c, id, estado, falla)
    \/ \E c \in Clients, id \in IdFields, falla \in Fallas : EliminarTareaAdmin(c, id, falla)

SpecTasks == Init /\ [][NextTasks]_vars

----------------------------------------------------------------------------
(* SpecForms: one logged-in user sends every form and body to the create and
   update paths of events and tasks *)

NextForms ==
    \/ LoginUnrecorded("c1", ana, pwA, FALSE)
    \/ \E form \in EventForms, falla \in Fallas : CrearEventoView("c1", form, falla)
    \/ \E data \in EventForms, falla \in Fallas : CrearEventoApi("c1", data, falla)
    \/ \E id \in 1..MaxEventos, data \in EventForms, falla \in Fallas :
           ActualizarEventoApi("c1", id, data, falla)
    \/ \E form \in TaskForms, falla \in Fallas : CrearTareaView("c1", form, falla)
    \/ \E id \in 1..MaxTareas, data \in TaskBodies, falla \in Fallas :
           ActualizarTareaApi("c1", id, data, falla)

SpecForms == Init /\ [][NextForms]_vars

----------------------------------------------------------------------------
(* Operations on several tables.  The store is the record of the three
   tables [usuario, eventos, tareas]; falla is 0 when nothing raises, k when
   the k-th statement raises and the number of statements plus one when the
   commit raises. *)

Store == [usuario |-> db, eventos |-> eventos, tareas |-> tareas]

\* registrar_usuario (src/db.py:162-179).  The schema is not among the sources;
\* the table usuario is read by name (obtener_usuario_por_nombre takes the one
\* row of a name), so the name is its key and a second INSERT of a name raises.
registrar_usuario(tabla, id, nombre, password, rol_id, falla) ==
    IF ~validar_usuario_password(nombre, password)
    THEN [error |-> "Datos de usuario invalidos o sospechosos", tabla |-> tabla]
    ELSE IF nombre \in DOMAIN tabla THEN [error |-> "Exception", tabla |-> tabla]
    ELSE [error |-> IF falla = NoFalla THEN "none" ELSE "Exception",
          tabla |-> transaccion(tabla,
                                Put(tabla, nombre,
                                    [password |-> password, rol |-> rol_id, id |-> id]),
                                falla)]

\* DELETE FROM <table> WHERE <date column> < fecha_limite
delete_antiguos(tabla, campo, limite) ==
    [x \in { y \in DOMAIN tabla : toordinal(tabla[y][campo]) >= limite } |-> tabla[x]]

\* limpiar_datos_antiguos (src/db.py:602-645): two DELETEs and a commit; an
\* exception is rolled back and answered with the counts 0, 0
limpiar_datos_antiguos(st, dias, hoy, falla) ==
    LET fecha_limite == toordinal(hoy) - dias
        s1 == [st EXCEPT !.eventos = delete_antiguos(st.eventos, "fecha_evento", fecha_limite)]
        s2 == [s1 EXCEPT !.tareas = delete_antiguos(st.tareas, "fecha_limite", fecha_limite)]
        working == IF falla = 1 THEN st ELSE IF falla = 2 THEN s1 ELSE s2
    IN
    [store |-> transaccion(st, working, falla),
     eventos_eliminados |-> IF falla # NoFalla THEN 0
                            ELSE Cardinality(DOMAIN st.eventos \ DOMAIN s2.eventos),
     tareas_eliminadas |-> IF falla # NoFalla THEN 0
                           ELSE Cardinality(DOMAIN st.tareas \ DOMAIN s2.tareas)]

\* POST /admin/limpiar-datos (src/app.py:1078-1111)
limpiar_datos_admin(c, dias_raw, falla) ==
    LET auth == decorated_function(c)
        \* int(request.form.get('dias', 7))
        dias == IF dias_raw.kind = "none" THEN JInt(7) ELSE dias_raw
    IN
    IF auth.outcome # "ok" THEN Answered(auth, auth.outcome, <<>>, Store)
    ELSE IF ~es_admin(db, session[c].usuario)
         THEN Answered(auth, "NoPermission", <<"No tienes permisos de administrador">>, Store)
    ELSE IF int_raises(dias) THEN Answered(auth, "Error", <<"Error al limpiar datos">>, Store)
    ELSE IF int(dias) < 1 \/ int(dias) > 365
         THEN Answered(auth, "BadDays", <<"El numero de dias debe estar entre 1 y 365">>, Store)
    \* the counts returned are reported as a success, whatever they are
    ELSE Answered(auth, "Purged", <<>>,
                  limpiar_datos_antiguos(Store, int(dias), reloj.fecha, falla).store)

\* src/app.py:1130-1150: the SELECT, the three DELETEs and the commit.  An
\* exception leaves the transaction open on a connection that is dropped, so
\* its statements are never committed.
eliminar_usuario_cascada(st, usuario_id, falla) ==
    LET s1 == [st EXCEPT !.eventos =
                  [x \in { y \in DOMAIN st.eventos :
                             st.eventos[y].creador_evento # usuario_id } |-> st.eventos[x]]]
        s2 == [s1 EXCEPT !.tareas =
                  [x \in { y \in DOMAIN st.tareas :
                             st.tareas[y].creador_tarea # usuario_id } |-> st.tareas[x]]]
        s3 == [s2 EXCEPT !.usuario =
                  [n \in { m \in DOMAIN st.usuario : st.usuario[m].id # usuario_id }
                     |-> st.usuario[n]]]
        working == IF falla = 1 THEN st ELSE IF falla = 2 THEN s1
                   ELSE IF falla = 3 THEN s2 ELSE s3
    IN
    IF \E n \in DOMAIN st.usuario : st.usuario[n].id = usuario_id /\ st.usuario[n].rol = 3
    THEN [error |-> "EsAdmin", store |-> st]
    ELSE [error |-> IF falla = NoFalla THEN "none" ELSE "Exception",
          store |-> transaccion(st, working, falla)]

\* POST /admin/eliminar-usuario (src/app.py:1114-1158)
eliminar_usuario_admin(c, usuario_id, falla) ==
    LET auth == decorated_function(c)
        r == eliminar_usuario_cascada(Store, int(usuario_id), falla)
    IN
    IF auth.outcome # "ok" THEN Answered(auth, auth.outcome, <<>>, Store)
    ELSE IF ~es_admin(db, session[c].usuario)
         THEN Answered(auth, "NoPermission", <<"No tienes permisos de administrador">>, Store)
    ELSE IF usuario_id.kind = "none" \/ usuario_id.texto = <<>>
         THEN Answered(auth, "NoTarget", <<"ID de usuario no proporcionado">>, Store)
    ELSE IF r.error = "EsAdmin"
         THEN Answered(auth, "EsAdmin", <<"No puedes eliminar a otro administrador">>, r.store)
    ELSE IF r.error # "none"
         THEN Answered(auth, "Error", <<"Error al eliminar usuario">>, r.store)
    ELSE Answered(auth, "Deleted", <<>>, r.store)

----------------------------------------------------------------------------
(* SpecStore: events and tasks grow old, the administrator purges old data
   and deletes users, and statements fail *)

MaxDias == 2       \* days that pass in one behaviour

FallasLimpiar == 0..3
FallasCascada == 0..4

\* the forms of the events and tasks that are created
StoreEventForms ==
    { Form(gym, Hoy, Vacio, Vacio, Vacio), Form(gym, PasadoManana, H0900, Vacio, Vacio) }

StoreTaskForms ==
    { TForm(gym, Hoy, Vacio, JText(<<"2">>), JNone),
      TForm(gym, PasadoManana, H0900, JText(<<"1">>), JNone) }

\* the values of the form field dias
DiasFields == {JText(<<"1">>), JText(<<"0">>), JText(<<"x">>)}

\* the values of the form field usuario_id
UserIdFields == {JText(<<"1">>), JText(<<"2">>), JText(<<>>)}

\* an administration route on the three tables handled to completion
AdminStep(op, c, r, input) ==
    /\ ACTIVE_USER_SESSIONS' = r.map
    /\ session' = [session EXCEPT ![c] = r.cookie]
    /\ db' = r.tabla.usuario
    /\ eventos' = r.tabla.eventos
    /\ tareas' = r.tabla.tareas
    /\ resp' = Respuesta(op, c, r, 0, input)
    /\ UNCHANGED <<now, nextToken, issued_at, req, nextId, reloj, call, cacheVars>>

LimpiarDatosAdmin(c, dias_raw, falla) ==
    \E r \in {limpiar_datos_admin(c, dias_raw, falla)} :
        AdminStep("limpiar_datos_admin", c, r, [campo |-> dias_raw, falla |-> falla])

EliminarUsuarioAdmin(c, usuario_id, falla) ==
    \E r \in {eliminar_usuario_admin(c, usuario_id, falla)} :
        AdminStep("eliminar_usuario_admin", c, r, [campo |-> usuario_id, falla |-> falla])

NextStore ==
    \/ Amanece(MaxDias)
    \/ LoginUnrecorded("c1", ana, pwA, FALSE)
    \/ LoginUnrecorded("c2", adm, pwR, FALSE)
    \/ \E form \in StoreEventForms, falla \in Fallas : CrearEventoView("c1", form, falla)
    \/ \E form \in StoreTaskForms, falla \in Fallas : CrearTareaView("c1", form, falla)
    \/ \E c \in Clients, dias \in DiasFields, falla \in FallasLimpiar :
           LimpiarDatosAdmin(c, dias, falla)
    \/ \E c \in Clients, id \in UserIdFields, falla \in FallasCascada :
           EliminarUsuarioAdmin(c, id, falla)

SpecStore == Init /\ [][NextStore]_vars

----------------------------------------------------------------------------
(* Registration (src/app.py:263-309) *)

\* '$' of re.match also matches before one line feed that ends the text
SinSaltoFinal(texto) ==
    IF texto # <<>> /\ texto[Len(texto)] = "\n" THEN SubSeq(texto, 1, Len(texto) - 1)
    ELSE texto

\* re.match(r'^[a-zA-Z0-9]+$', usuario)
solo_alfanumerico(usuario) ==
    /\ SinSaltoFinal(usuario) # <<>>
    /\ \A i \in 1..Len(SinSaltoFinal(usuario)) : usuario[i] \in AlNum

\* re.match(r'^(?=.*[a-z])(?=.*[A-Z])(?=.*\d)[A-Za-z\d]{8,}$', password)
patron_password(password) ==
    /\ \E i \in 1..Len(password) : password[i] \in LowerLetters
    /\ \E i \in 1..Len(password) : password[i] \in UpperLetters
    /\ \E i \in 1..Len(password) : password[i] \in Digits
    /\ Len(SinSaltoFinal(password)) >= 8
    /\ \A i \in 1..Len(SinSaltoFinal(password)) : password[i] \in AlNum

admin == <<"a", "d", "m", "i", "n">>

register_errors(usuario, password, confirm) ==
    Append1(~validar_no_vacio(usuario) \/ ~validar_no_vacio(password), "Usuario y contrasena son obligatorios")
    \o Append1(~validar_longitud(usuario, 50, 3), "El usuario debe tener entre 3 y 50 caracteres")
    \o Append1(~solo_alfanumerico(usuario), "El usuario solo puede contener letras y numeros")
    \o Append1(usuario # admin /\ ~patron_password(password), "La contrasena debe tener minimo 8 caracteres, incluir mayuscula, minuscula y numero")
    \o Append1(password # confirm, "Las contrasenas no coinciden")

\* POST /register: the answer and the table usuario after it
register(tabla, id, raw_usuario, password, confirm, falla) ==
    LET usuario == sanitizar_texto(raw_usuario)
        errors == register_errors(usuario, password, confirm)
        r == registrar_usuario(tabla, id, usuario, password, 1, falla)
    IN
    IF errors # <<>> THEN [outcome |-> "ValidationError", errors |-> errors, tabla |-> tabla]
    ELSE IF obtener_usuario_por_nombre(tabla, usuario) # NoRow
         THEN [outcome |-> "ValidationError", errors |-> <<"El usuario ya existe">>, tabla |-> tabla]
    ELSE IF r.error = "none" THEN [outcome |-> "Created", errors |-> <<>>, tabla |-> r.tabla]
    ELSE IF r.error = "Exception"
         THEN [outcome |-> "ServerError", errors |-> <<"Error interno registrando usuario">>, tabla |-> r.tabla]
    ELSE [outcome |-> "ValidationError", errors |-> <<r.error>>, tabla |-> r.tabla]

----------------------------------------------------------------------------
(* SpecUsers: registrations and changes of user name *)

MaxUsuarios == 4       \* rows of the table usuario

pw8 == <<"p", "w", "A", "1", "p", "w", "A", "1">>
e_a == <<"e", "_", "a">>
eva_padded == <<" ", "e", "v", "a">>

RForm(usuario, password, confirm) == [usuario |-> usuario, password |-> password, confirm |-> confirm]

\* the registration forms sent
RegisterForms ==
    { RForm(eva, pw8, pw8), RForm(eva_padded, pw8, pw8), RForm(ab, pw8, pw8),
      RForm(e_a, pw8, pw8), RForm(ana, pw8, pw8), RForm(eva, pwA, pwA),
      RForm(eva, pw8, pwA), RForm(admin, pwA, pwA) }

\* the forms of the change of user name: <<nuevo_nombre, password_confirmar>>
RenameFormsUsers == { <<e_a, pwA>>, <<e_a, pw8>>, <<eva, pwA>>, <<ab, pwA>> }

Register(c, form, falla) ==
    \E r \in {register(db, nextId.usuario, form.usuario, form.password, form.confirm, falla)} :
    /\ r.outcome = "Created" => nextId.usuario <= MaxUsuarios
    /\ db' = r.tabla
    /\ nextId' = IF r.outcome = "Created" THEN [nextId EXCEPT !.usuario = @ + 1] ELSE nextId
    /\ resp' = [op |-> "register", client |-> c, outcome |-> r.outcome, errors |-> r.errors, id |-> 0, input |-> form]
    /\ UNCHANGED <<now, ACTIVE_USER_SESSIONS, session, nextToken, issued_at, req, eventos, tareas, reloj, call, cacheVars>>

NextUsers ==
    \/ \E form \in RegisterForms, falla \in Fallas : Register("c1", form, falla)
    \/ \E c \in Clients, form \in {<<ana, pwA>>, <<eva, pw8>>, <<e_a, pw8>>} :
           LoginUnrecorded(c, form[1], form[2], FALSE)
    \/ \E c \in Clients, form \in RenameFormsUsers, ok \in BOOLEAN :
           CambiarNombreUsuario(c, form[1], form[2], ok)

SpecUsers == Init /\ [][NextUsers]_vars

----------------------------------------------------------------------------
(* The read cache of the persistence gateway (src/db.py:18-156).  A key is the
   function's name with the tuple of its positional arguments; usuario_id
   None is written 0. *)

CACHE_DURATION == 30      \* seconds

clave(func, args) == [func |-> func, args |-> args]

\* invalidate_cache(pattern): the keys that contain the pattern are removed
invalidate_cache(memo, pattern) == [k \in { q \in DOMAIN memo : q.func # pattern } |-> memo[k]]

\* the wrapper of cache_with_expiry: what the call returns and the cache after
\* it; fresh is what the wrapped function reads from the store
cache_with_expiry(memo, t, key, fresh) ==
    IF key \in DOMAIN memo /\ t - memo[key].timestamp < CACHE_DURATION
    THEN [result |-> memo[key].result, memo |-> memo]
    ELSE [result |-> fresh, memo |-> Put(memo, key, [result |-> fresh, timestamp |-> t])]

\* the usuario_id the wrapped function receives
primer_arg(args) == IF args = <<>> THEN 0 ELSE args[1]

\* SELECT * FROM eventos [WHERE creador_evento = %s]
select_eventos(tabla, args) == [x \in obtener_eventos(tabla, primer_arg(args)) |-> tabla[x]]

\* SELECT * FROM tareas [WHERE creador_tarea = %s], each row with its estado_str
select_tareas(tabla, args) ==
    [x \in obtener_tareas(tabla, primer_arg(args)) |->
        [estado_str |-> IF tabla[x].estado = 0 THEN "Pendiente" ELSE "Completada"] @@ tabla[x]]

\* obtener_eventos / obtener_tareas behind @cache_with_expiry(duration=30)
obtener_eventos_cached(memo, t, tabla, args) ==
    cache_with_expiry(memo, t, clave("obtener_eventos", args), select_eventos(tabla, args))

obtener_tareas_cached(memo, t, tabla, args) ==
    cache_with_expiry(memo, t, clave("obtener_tareas", args), select_tareas(tabla, args))

\* the cache after a mutation of the gateway: invalidated after the commit
tras_commit(memo, r, pattern) ==
    IF r.error = "none" THEN invalidate_cache(memo, pattern) ELSE memo

----------------------------------------------------------------------------
(* SpecCache: the functions of the gateway called one after another, with the
   cache between the readers and the store *)

MaxSegundos == 30      \* last value of time.time() in one behaviour
PasoSegundos == 15     \* seconds between two calls

\* the argument tuples of the readers: () and (1,)
\* a date that a purge of data older than one day deletes at once
Anteayer == <<2025, 6, 28>>

ArgsLectura == { <<>>, <<1>> }

Resultado(op, result) == [op |-> op, result |-> result]

Pasa ==
    /\ segundos + PasoSegundos <= MaxSegundos
    /\ segundos' = segundos + PasoSegundos
    /\ UNCHANGED <<now, db, ACTIVE_USER_SESSIONS, session, nextToken, issued_at, resp, req, eventos, tareas, nextId, reloj, call, cache>>

\* a mutation of the table eventos through the gateway
MutaEventos(op, r) ==
    /\ eventos' = r.tabla
    /\ cache' = tras_commit(cache, r, "obtener_eventos")
    /\ resp' = Resultado(op, r.error)
    /\ UNCHANGED <<now, db, ACTIVE_USER_SESSIONS, session, nextToken, issued_at, req, tareas, reloj, call, segundos>>

\* a mutation of the table tareas through the gateway
MutaTareas(op, r) ==
    /\ tareas' = r.tabla
    /\ cache' = tras_commit(cache, r, "obtener_tareas")
    /\ resp' = Resultado(op, r.error)
    /\ UNCHANGED <<now, db, ACTIVE_USER_SESSIONS, session, nextToken, issued_at, req, eventos, reloj, call, segundos>>

CacheCrearEvento(creador_id, falla) ==
    /\ nextId.evento <= MaxEventos
    /\ \E r \in {crear_evento(eventos, nextId.evento, gym, Anteayer, H0900, creador_id, Vacio, Vacio, Vacio, falla)} :
           /\ MutaEventos("crear_evento", r)
           /\ nextId' = IF r.error = "none" THEN [nextId EXCEPT !.evento = @ + 1] ELSE nextId

CacheModificarEvento(id, falla) ==
    /\ id \in DOMAIN eventos
    /\ \E r \in {modificar_evento(eventos, id, gym, PasadoManana, H0900, Vacio, Vacio, Vacio, falla)} :
           MutaEventos("modificar_evento", r)
    /\ UNCHANGED nextId

CacheEliminarEvento(id, falla) ==
    /\ id \in DOMAIN eventos
    /\ \E r \in {eliminar_evento(eventos, id, falla)} : MutaEventos("eliminar_evento", r)
    /\ UNCHANGED nextId

CacheCrearTarea(creador_id, falla) ==
    /\ nextId.tarea <= MaxTareas
    /\ \E r \in {crear_tarea(tareas, nextId.tarea, gym, Vacio, Anteayer, 2, creador_id, 0, Vacio, falla)} :
           /\ MutaTareas("crear_tarea", r)
           /\ nextId' = IF r.error = "none" THEN [nextId EXCEPT !.tarea = @ + 1] ELSE nextId

CacheModificarTarea(id, falla) ==
    /\ id \in DOMAIN tareas
    /\ \E r \in {modificar_tarea(tareas, id, gym, Vacio, PasadoManana, 3, 0, Vacio, falla)} :
           MutaTareas("modificar_tarea", r)
    /\ UNCHANGED nextId

CacheEliminarTarea(id, falla) ==
    /\ id \in DOMAIN tareas
    /\ \E r \in {eliminar_tarea(tareas, id, falla)} : MutaTareas("eliminar_tarea", r)
    /\ UNCHANGED nextId

CacheActualizarEstadoTarea(id, estado, falla) ==
    /\ id \in DOMAIN tareas
    /\ \E r \in {actualizar_estado_tarea(tareas, id, estado, falla)} :
           MutaTareas("actualizar_estado_tarea", r)
    /\ UNCHANGED nextId

\* limpiar_datos_antiguos(dias): no call of invalidate_cache
CacheLimpiarDatosAntiguos(dias, falla) ==
    \E r \in {limpiar_datos_antiguos(Store, dias, reloj.fecha, falla)} :
        /\ eventos' = r.store.eventos
        /\ tareas' = r.store.tareas
        /\ resp' = Resultado("limpiar_datos_antiguos", <<r.eventos_eliminados, r.tareas_eliminadas>>)
        /\ UNCHANGED <<now, db, ACTIVE_USER_SESSIONS, session, nextToken, issued_at, req, nextId, reloj, call, cacheVars>>

\* the statements of eliminar_usuario_admin: no call of invalidate_cache
CacheEliminarUsuario(usuario_id, falla) ==
    \E r \in {eliminar_usuario_cascada(Store, usuario_id, falla)} :
        /\ db' = r.store.usuario
        /\ eventos' = r.store.eventos
        /\ tareas' = r.store.tareas
        /\ resp' = Resultado("eliminar_usuario_admin", r.error)
        /\ UNCHANGED <<now, ACTIVE_USER_SESSIONS, session, nextToken, issued_at, req, nextId, reloj, call, cacheVars>>

ObtenerEventos(args) ==
    \E r \in {obtener_eventos_cached(cache, segundos, eventos, args)} :
        /\ cache' = r.memo
        /\ resp' = Resultado("obtener_eventos", r.result)
        /\ UNCHANGED <<now, db, ACTIVE_USER_SESSIONS, session, nextToken, issued_at, req, eventos, tareas, nextId, reloj, call, segundos>>

ObtenerTareas(args) ==
    \E r \in {obtener_tareas_cached(cache, segundos, tareas, args)} :
        /\ cache' = r.memo
        /\ resp' = Resultado("obtener_tareas", r.result)
        /\ UNCHANGED <<now, db, ACTIVE_USER_SESSIONS, session, nextToken, issued_at, req, eventos, tareas, nextId, reloj, call, segundos>>

NextCache ==
    \/ Pasa
    \/ \E falla \in Fallas : CacheCrearEvento(1, falla)
    \/ \E id \in 1..MaxEventos, falla \in Fallas : CacheModificarEvento(id, falla)
    \/ \E id \in 1..MaxEventos, falla \in Fallas : CacheEliminarEvento(id, falla)
    \/ \E falla \in Fallas : CacheCrearTarea(1, falla)
    \/ \E id \in 1..MaxTareas, falla \in Fallas : CacheModificarTarea(id, falla)
    \/ \E id \in 1..MaxTareas, falla \in Fallas : CacheEliminarTarea(id, falla)
    \/ \E id \in 1..MaxTareas, estado \in 0..1, falla \in Fallas :
           CacheActualizarEstadoTarea(id, estado, falla)
    \/ \E falla \in {NoFalla, FallaCommit} : CacheLimpiarDatosAntiguos(1, falla)
    \/ \E falla \in {NoFalla, FallaExecute} : CacheEliminarUsuario(1, falla)
    \/ \E args \in ArgsLectura : ObtenerEventos(args)
    \/ \E args \in ArgsLectura : ObtenerTareas(args)

SpecCache == Init /\ [][NextCache]_vars

----------------------------------------------------------------------------
(* Times of day as the rows carry them (src/utils.py:284-312,
   src/models.py:43-57): None, a text, a datetime.time or, for a TIME column
   read from MySQL, a datetime.timedelta since midnight *)

HNone == [kind |-> "none"]
HStr(texto) == [kind |-> "str", texto |-> texto]
HTime(h, m) == [kind |-> "time", h |-> h, m |-> m]
HDelta(s) == [kind |-> "timedelta", s |-> s]

DigitChar(n) == CHOOSE ch \in Digits : DigitValue(ch) = n

\* f"{n:02d}" of a number below 100
Dos(n) == <<DigitChar(n \div 10), DigitChar(n % 10)>>

\* 'not hora_val': None, the empty text and timedelta(0) are false
es_falso(hora_val) ==
    \/ hora_val.kind = "none"
    \/ hora_val.kind = "str" /\ hora_val.texto = <<>>
    \/ hora_val.kind = "timedelta" /\ hora_val.s = 0

\* texto[:5]
corte5(texto) == SubSeq(texto, 1, IF Len(texto) < 5 THEN Len(texto) ELSE 5)

\* normalizar_hora (src/utils.py:284-312)
normalizar_hora(hora_val) ==
    IF es_falso(hora_val) THEN <<>>
    ELSE IF hora_val.kind = "str" THEN corte5(hora_val.texto)
    ELSE IF hora_val.kind = "time" THEN Dos(hora_val.h) \o <<":">> \o Dos(hora_val.m)
    ELSE LET total == hora_val.s
             hours == (total \div 3600) % 24
             minutes == (total % 3600) \div 60
         IN Dos(hours) \o <<":">> \o Dos(minutes)

\* Evento._normalizar_hora and Tarea._normalizar_hora (src/models.py:43-57, 109-123)
modelo_normalizar_hora(hora_val) ==
    IF es_falso(hora_val) THEN <<>>
    ELSE IF hora_val.kind = "str" THEN corte5(hora_val.texto)
    ELSE IF hora_val.kind = "time" THEN Dos(hora_val.h) \o <<":">> \o Dos(hora_val.m)
    ELSE LET total == hora_val.s
             hours == (total \div 3600) % 24
             minutes == (total % 3600) \div 60
         IN Dos(hours) \o <<":">> \o Dos(minutes)

----------------------------------------------------------------------------
(* The entity wrappers (src/models.py).  A dict is a function from its keys;
   a value is None (HNone), a text (HStr), a datetime.date (FDate), a time of
   day as above, or a number or raw value as received (JInt, JText, JNone). *)

FDate(f) == [kind |-> "date", f |-> f]

\* data.get(key, default)
dget(data, key, default) == IF key \in DOMAIN data THEN data[key] ELSE default

\* str(date): YYYY-MM-DD
isoformat(f) ==
    <<DigitChar(f[1] \div 1000), DigitChar((f[1] \div 100) % 10), DigitChar((f[1] \div 10) % 10), DigitChar(f[1] % 10), "-">>
    \o Dos(f[2]) \o <<"-">> \o Dos(f[3])

\* str(v) of a date, a text or None
str(v) ==
    IF v.kind = "date" THEN isoformat(v.f)
    ELSE IF v.kind = "str" THEN v.texto
    ELSE <<"N", "o", "n", "e">>

\* str(v) if v else ''
str_o_vacio(v) == IF es_falso(v) THEN <<>> ELSE str(v)

\* Evento.__init__ (src/models.py:13-27)
Evento(data) ==
    [id |-> dget(data, "id", HNone),
     nombre |-> dget(data, "nombre", HStr(<<>>)),
     descripcion |-> dget(data, "descripcion", HStr(<<>>)),
     fecha_evento |-> dget(data, "fecha_evento", HNone),
     hora_evento |-> dget(data, "hora_evento", HNone),
     fecha_fin |-> dget(data, "fecha_fin", HNone),
     hora_fin |-> dget(data, "hora_fin", HNone),
     creador_id |-> dget(data, "creador_evento", HNone),
     fecha_creacion |-> dget(data, "fecha_creacion", HNone)]

\* Evento.to_dict (src/models.py:29-41)
Evento_to_dict(self) ==
    [id |-> self.id,
     nombre |-> self.nombre,
     descripcion |-> self.descripcion,
     fecha_evento |-> HStr(str_o_vacio(self.fecha_evento)),
     hora_evento |-> HStr(modelo_normalizar_hora(self.hora_evento)),
     fecha_fin |-> HStr(str_o_vacio(self.fecha_fin)),
     hora_fin |-> HStr(modelo_normalizar_hora(self.hora_fin)),
     creador_evento |-> self.creador_id,
     fecha_creacion |-> self.fecha_creacion]

\* a or b of Python, on texts
texto_o(a, b) == IF a # <<>> THEN a ELSE b

\* faulty variant of Evento_to_fullcalendar: the end time has no default
Evento_to_fullcalendar_sin_defecto(self) ==
    LET hora_inicio == texto_o(modelo_normalizar_hora(self.hora_evento), <<"0", "0", ":", "0", "0">>)
        hora_fin == modelo_normalizar_hora(self.hora_fin)
        fecha_fin == IF es_falso(self.fecha_fin) THEN self.fecha_evento ELSE self.fecha_fin
    IN
    [id |-> self.id,
     title |-> self.nombre,
     start |-> str(self.fecha_evento) \o <<"T">> \o hora_inicio,
     end |-> str(fecha_fin) \o <<"T">> \o hora_fin,
     extendedProps |->
        [descripcion |-> IF es_falso(self.descripcion) THEN HStr(<<>>) ELSE self.descripcion,
         fecha_evento |-> str_o_vacio(self.fecha_evento),
         fecha_fin |-> str_o_vacio(fecha_fin)]]

\* Evento.to_fullcalendar (src/models.py:59-74)
Evento_to_fullcalendar(self) ==
    LET hora_inicio == texto_o(modelo_normalizar_hora(self.hora_evento), <<"0", "0", ":", "0", "0">>)
        hora_fin == texto_o(modelo_normalizar_hora(self.hora_fin), hora_inicio)
        fecha_fin == IF es_falso(self.fecha_fin) THEN self.fecha_evento ELSE self.fecha_fin
    IN
    [id |-> self.id,
     title |-> self.nombre,
     start |-> str(self.fecha_evento) \o <<"T">> \o hora_inicio,
     end |-> str(fecha_fin) \o <<"T">> \o hora_fin,
     extendedProps |->
        [descripcion |-> IF es_falso(self.descripcion) THEN HStr(<<>>) ELSE self.descripcion,
         fecha_evento |-> str_o_vacio(self.fecha_evento),
         fecha_fin |-> str_o_vacio(fecha_fin)]]

\* Tarea.__init__ (src/models.py:94-107)
Tarea(data) ==
    [id |-> dget(data, "id", HNone),
     nombre |-> dget(data, "nombre", HStr(<<>>)),
     descripcion |-> dget(data, "descripcion", HStr(<<>>)),
     fecha_limite |-> dget(data, "fecha_limite", HNone),
     hora_evento |-> dget(data, "hora_evento", HNone),
     prioridad |-> dget(data, "prioridad", JInt(1)),
     estado |-> IF int_raises(dget(data, "estado", JInt(0))) THEN 0
                ELSE int(dget(data, "estado", JInt(0))),
     creador_id |-> dget(data, "creador_tarea", HNone),
     fecha_creacion |-> dget(data, "fecha_creacion", HNone)]

\* str(prioridad).isdigit(): a number that is not negative or a text of digits
isdigit(v) ==
    \/ v.kind = "int" /\ v.n >= 0
    \/ v.kind = "text" /\ v.texto # <<>> /\ \A i \in 1..Len(v.texto) : v.texto[i] \in Digits

estado_str(estado) == IF estado = 1 THEN "Completada" ELSE "Pendiente"

\* Tarea.to_dict (src/models.py:125-137)
Tarea_to_dict(self) ==
    [id |-> self.id,
     nombre |-> self.nombre,
     descripcion |-> self.descripcion,
     fecha_limite |-> HStr(str_o_vacio(self.fecha_limite)),
     hora_evento |-> HStr(modelo_normalizar_hora(self.hora_evento)),
     prioridad |-> IF isdigit(self.prioridad) THEN JInt(int(self.prioridad)) ELSE self.prioridad,
     estado |-> JInt(self.estado),
     estado_str |-> estado_str(self.estado),
     creador_tarea |-> self.creador_id,
     fecha_creacion |-> self.fecha_creacion]

\* Tarea.to_modal_dict (src/models.py:143-156)
Tarea_to_modal_dict(self) ==
    [id |-> self.id,
     nombre |-> self.nombre,
     descripcion |-> self.descripcion,
     fecha_evento |-> HStr(str_o_vacio(self.fecha_limite)),
     hora_evento |-> HStr(modelo_normalizar_hora(self.hora_evento)),
     fecha_fin |-> HStr(<<>>),
     hora_fin |-> HStr(<<>>),
     prioridad |-> self.prioridad,
     estado |-> JInt(self.estado),
     estado_str |-> estado_str(self.estado)]

\* a TIME column as the MySQL driver returns it: NULL or a timedelta
columna_time(h) ==
    IF h = Vacio THEN HNone
    ELSE HDelta(3600 * h[1] + 60 * h[2] + (IF Len(h) > 2 THEN h[3] ELSE 0))

\* a DATE column as the MySQL driver returns it: NULL or a date
columna_date(f) == IF f = Vacio THEN HNone ELSE FDate(f)

\* a row of obtener_eventos (cursor(dictionary=True))
fila_evento(id, row) ==
    [id |-> JInt(id),
     nombre |-> HStr(row.nombre),
     descripcion |-> IF row.descripcion = Vacio THEN HNone ELSE HStr(row.descripcion),
     fecha_evento |-> columna_date(row.fecha_evento),
     hora_evento |-> columna_time(row.hora_evento),
     fecha_fin |-> columna_date(row.fecha_fin),
     hora_fin |-> columna_time(row.hora_fin),
     creador_evento |-> JInt(row.creador_evento)]

----------------------------------------------------------------------------
(* SpecPure: the pure functions of src/utils.py and src/models.py, each
   applied once to an argument *)

MaxDuracion == 90000       \* longest timedelta, in seconds
PasoDuracion == 900        \* distance between two timedeltas

t081500 == <<"0", "8", ":", "1", "5", ":", "0", "0">>
t0815 == <<"0", "8", ":", "1", "5">>
t95 == <<"9", ":", "5">>

\* the values normalizar_hora is applied to
HoraVals ==
    { HDelta(k * PasoDuracion) : k \in 0..(MaxDuracion \div PasoDuracion) }
    \cup { HNone, HStr(<<>>), HStr(t081500), HStr(t0815), HStr(t95), HTime(0, 0), HTime(8, 15) }

\* the texts sanitizar_texto is applied to: every text of at most MaxTexto
\* characters over a letter, a space and the two kinds of control character
MaxTexto == 3
TextChars == {"a", " ", "^A", "^FS"}
Textos == UNION { [1..n -> TextChars] : n \in 0..MaxTexto }

\* the records the wrappers are applied to
FechaVals == { FDate(Hoy), HStr(isoformat(Hoy)), HNone }
HoraCampos == { HDelta(32400), HDelta(0), HStr(t081500), HNone }

EventoDicts ==
    { [id |-> JInt(1), nombre |-> HStr(gym), descripcion |-> HNone, fecha_evento |-> f, hora_evento |-> h, fecha_fin |-> ff, hora_fin |-> hf, creador_evento |-> JInt(1)] :
        f \in FechaVals, h \in HoraCampos, ff \in FechaVals, hf \in HoraCampos }
    \cup { [id |-> JInt(1)] }

TareaDicts ==
    { [id |-> JInt(1), nombre |-> HStr(gym), descripcion |-> HNone, fecha_limite |-> f, hora_evento |-> h, prioridad |-> p, estado |-> e, creador_tarea |-> JInt(1)] :
        f \in FechaVals, h \in HoraCampos,
        p \in {JInt(2), JText(<<"2">>), JText(<<"x">>), JNone},
        e \in {JInt(1), JText(<<"1">>), JText(<<"x">>), JNone} }
    \cup { [id |-> JInt(1)] }

\* a projection and the projection of its re-wrapped result
Dos_veces(una, dos) == [una |-> una, dos |-> dos]

Llamada(fn, a) == [fn |-> fn, a |-> a, b |-> Vacio, done |-> FALSE, result |-> FALSE]

InitPure ==
    /\ InitState
    /\ call \in { Llamada("normalizar_hora", v) : v \in HoraVals }
                \cup { Llamada("modelo_normalizar_hora", v) : v \in HoraVals }
                \cup { Llamada("sanitizar_texto", t) : t \in Textos }
                \cup { Llamada("Evento.to_dict", d) : d \in EventoDicts }
                \cup { Llamada("Tarea.to_dict", d) : d \in TareaDicts }
                \cup { Llamada("Tarea.to_modal_dict", d) : d \in TareaDicts }

Aplica(fn, result) ==
    /\ call.fn = fn
    /\ ~call.done
    /\ call' = [call EXCEPT !.done = TRUE, !.result = result]
    /\ UNCHANGED <<now, db, ACTIVE_USER_SESSIONS, session, nextToken, issued_at, resp, req, eventos, tareas, nextId, reloj, cacheVars>>

ApplyNormalizarHora == Aplica("normalizar_hora", normalizar_hora(call.a))

ApplyModeloNormalizarHora == Aplica("modelo_normalizar_hora", modelo_normalizar_hora(call.a))

ApplySanitizarTexto == Aplica("sanitizar_texto", sanitizar_texto(call.a))

ApplyEventoToDict ==
    Aplica("Evento.to_dict", Dos_veces(Evento_to_dict(Evento(call.a)), Evento_to_dict(Evento(Evento_to_dict(Evento(call.a))))))

ApplyTareaToDict ==
    Aplica("Tarea.to_dict", Dos_veces(Tarea_to_dict(Tarea(call.a)), Tarea_to_dict(Tarea(Tarea_to_dict(Tarea(call.a))))))

ApplyTareaToModalDict ==
    Aplica("Tarea.to_modal_dict", Dos_veces(Tarea_to_modal_dict(Tarea(call.a)), Tarea_to_modal_dict(Tarea(Tarea_to_modal_dict(Tarea(call.a))))))

NextPure ==
    \/ ApplyEventoToDict
    \/ ApplyTareaToDict
    \/ ApplyTareaToModalDict
    \/ ApplyNormalizarHora
    \/ ApplyModeloNormalizarHora
    \/ ApplySanitizarTexto

SpecPure == InitPure /\ [][NextPure]_vars

----------------------------------------------------------------------------
(* SpecRanges: the two range validators of src/utils.py, each applied once to
   a pair of texts *)

HoraTexts ==
    {Vacio, H0000, H0859, H0900, <<9, 1>>, H1800, <<23, 59>>, HoraInvalida, <<9, 60>>, H090000}

FechaTexts ==
    {Vacio, Ayer, Hoy, Manana, <<2024, 6, 30>>, <<2026, 1, 1>>, <<2025, 5, 31>>,
     FechaInvalida, <<2025, 2, 29>>, <<2024, 2, 29>>, <<2025, 13, 1>>}

InitRanges ==
    /\ InitState
    /\ call \in
         { [fn |-> "validar_rango_horas", a |-> a, b |-> b, done |-> FALSE, result |-> FALSE] :
             a \in HoraTexts, b \in HoraTexts }
         \cup
         { [fn |-> "validar_fechas", a |-> a, b |-> b, done |-> FALSE, result |-> FALSE] :
             a \in FechaTexts, b \in FechaTexts }

ApplyRangoHoras ==
    /\ call.fn = "validar_rango_horas"
    /\ ~call.done
    /\ call' = [call EXCEPT !.done = TRUE, !.result = validar_rango_horas(call.a, call.b)]
    /\ UNCHANGED <<now, db, ACTIVE_USER_SESSIONS, session, nextToken, issued_at, resp, req,
                   eventos, tareas, nextId, reloj, cacheVars>>

ApplyFechas ==
    /\ call.fn = "validar_fechas"
    /\ ~call.done
    /\ call' = [call EXCEPT !.done = TRUE, !.result = validar_fechas(call.a, call.b)]
    /\ UNCHANGED <<now, db, ACTIVE_USER_SESSIONS, session, nextToken, issued_at, resp, req,
                   eventos, tareas, nextId, reloj, cacheVars>>

NextRanges == ApplyRangoHoras \/ ApplyFechas

SpecRanges == InitRanges /\ [][NextRanges]_vars

\* x is earlier than y, field by field from the left (texts of equal shape)
Before(x, y) ==
    \E i \in 1..Len(x) : x[i] < y[i] /\ \A j \in 1..(i - 1) : x[j] = y[j]

\* the text is a time of day HH:MM
IsHHMM(h) == Len(h) = 2 /\ h[1] \in 0..23 /\ h[2] \in 0..59

\* the text is a calendar date YYYY-MM-DD
IsDate(f) ==
    /\ Len(f) = 3
    /\ f[1] >= 1
    /\ f[2] \in 1..12
    /\ f[3] >= 1
    /\ f[3] <= (IF f[2] = 2 THEN (IF IsLeap(f[1]) THEN 29 ELSE 28)
                ELSE IF f[2] \in {4, 6, 9, 11} THEN 30 ELSE 31)

\* C20: validar_rango_horas is true when either bound is missing and otherwise
\* true iff both bounds are valid HH:MM and the end is not before the start;
\* validar_fechas is true when the end is missing and otherwise true iff both
\* are dates and the end is not before the start.  Equal bounds are accepted,
\* an end one minute or one day before the start is refused.
C20_RangeValidators ==
    call.done =>
      /\ call.fn = "validar_rango_horas" =>
           call.result = ( \/ call.a = Vacio
                           \/ call.b = Vacio
                           \/ /\ IsHHMM(call.a)
                              /\ IsHHMM(call.b)
                              /\ ~Before(call.b, call.a) )
      /\ call.fn = "validar_fechas" =>
           call.result = ( \/ call.b = Vacio
                           \/ /\ IsDate(call.a)
                              /\ IsDate(call.b)
                              /\ ~Before(call.b, call.a) )

\* an end date one day before the start, across the end of a month, was refused
C20_Witness ==
    /\ call.done
    /\ call.fn = "validar_fechas"
    /\ call.a = Manana
    /\ call.b = Hoy
    /\ ~call.result

----------------------------------------------------------------------------
(* The planner: stored events and tasks *)

\* C11: every stored event has its end date on or after its start date, and
\* when the two dates are equal and an end time is present, the end time is
\* not before the start time; this holds after every creation (HTML form and
\* JSON API) and every update (JSON API).
C11_EventDatesOrdered ==
    \A x \in DOMAIN eventos :
        eventos[x].fecha_fin # Vacio =>
            /\ ~Before(eventos[x].fecha_fin, eventos[x].fecha_evento)
            /\ (eventos[x].fecha_fin = eventos[x].fecha_evento
                /\ eventos[x].hora_fin # Vacio)
               => ~Before(eventos[x].hora_fin, eventos[x].hora_evento)

\* the message is among the errors reported
Reported(errors, msg) == \E i \in 1..Len(errors) : errors[i] = msg

InSet(v, S) ==
    \/ v.kind = "int" /\ v.n \in S
    \/ v.kind = "float" /\ v.n % 10 = 0 /\ (v.n \div 10) \in S
    \/ v.kind = "text" /\ IsNumeral(v.texto) /\ Numeral(v.texto) \in S

\* a value was sent and it is no member of S
Outside(v, S) == v.kind # "none" /\ ~InSet(v, S)

\* the route accepted the request and wrote to the store
Accepted(outcome) == outcome \in {"Created", "Updated", "Toggled", "Deleted"}

\* C12 as stated: every operation whose priority or state is outside {1,2,3}
\* or {0,1} is rejected.
C12_OutsideRejected ==
    (/\ resp.op \in {"crear_tarea_view", "actualizar_tarea_api", "actualizar_estado_tarea_view"}
     /\ \/ Outside(resp.input.prioridad, {1, 2, 3})
        \/ Outside(resp.input.estado, {0, 1}))
    => ~Accepted(resp.outcome)

\* C12: every stored task has priority in {1,2,3} and state in {0,1}.  A create,
\* update or state toggle whose priority or state is converted by int() to a
\* number outside its set is rejected and leaves the tasks unchanged.  The
\* update API does not reject a state that is not a number: it stores 1 when
\* the text begins with c or C and 0 otherwise.
C12_TaskDomain ==
    /\ \A x \in DOMAIN tareas :
           tareas[x].prioridad \in {1, 2, 3} /\ tareas[x].estado \in {0, 1}
    /\ \A c \in Clients, falla \in Fallas :
        decorated_function(c).outcome = "ok" =>
          /\ \A form \in TaskForms : \A r \in {crear_tarea_view(c, form, falla)} :
                (~int_raises(form.prioridad) /\ int(form.prioridad) \notin {1, 2, 3})
                => ~Accepted(r.outcome) /\ r.tabla = tareas
          /\ \A id \in DOMAIN tareas, data \in TaskBodies :
             \A r \in {actualizar_tarea_api(c, id, data, falla)} :
                /\ (\/ ~int_raises(data.prioridad) /\ int(data.prioridad) \notin {1, 2, 3}
                    \/ ~int_raises(data.estado) /\ int(data.estado) \notin {0, 1})
                   => ~Accepted(r.outcome) /\ r.tabla = tareas
                /\ (r.tabla # tareas /\ data.estado.kind = "text" /\ int_raises(data.estado))
                   => r.tabla[id].estado =
                        (IF data.estado.texto # <<>> /\ Head(data.estado.texto) \in {"c", "C"}
                         THEN 1 ELSE 0)
          /\ \A id \in DOMAIN tareas, estado \in EstadoValues :
             \A r \in {actualizar_estado_tarea_view(c, id, estado, falla)} :
                (~int_raises(estado) /\ int(estado) \notin {0, 1})
                => ~Accepted(r.outcome) /\ r.tabla = tareas

\* the update API refused the state 2 and the task is as it was created
C12_Witness ==
    /\ resp.op = "actualizar_tarea_api"
    /\ resp.input.estado = JInt(2)
    /\ resp.outcome = "ValidationError"
    /\ resp.errors = <<"Estado invalido (0 o 1)">>
    /\ 1 \in DOMAIN tareas
    /\ tareas[1].estado = 0

\* C13: a request by an authenticated user who is neither the owner of a task
\* nor an administrator is answered with permission denied and changes
\* nothing, whether it is an update, a delete or the state toggle.
C13_NonOwnerDenied ==
    \A c \in Clients, falla \in Fallas, id \in DOMAIN tareas :
        (/\ decorated_function(c).outcome = "ok"
         /\ ~es_admin(db, session[c].usuario)
         /\ tareas[id].creador_tarea # user_id(db, session[c].usuario, 0))
        => /\ \A data \in TaskBodies : \A r \in {actualizar_tarea_api(c, id, data, falla)} :
                 r.outcome = "Forbidden" /\ r.tabla = tareas
           /\ \A r \in {eliminar_tarea_view(c, id, falla)} :
                 r.outcome = "Forbidden" /\ r.tabla = tareas
           /\ \A estado \in EstadoValues :
              \A r \in {actualizar_estado_tarea_view(c, id, estado, falla)} :
                 r.outcome = "Forbidden" /\ r.tabla = tareas

\* C18: an update, a delete, an administrative delete or a state toggle
\* addressed to a task id that has no record is answered with not-found,
\* neither success nor a validation error, and changes nothing.
C18_NotFoundReported ==
    \A c \in Clients, falla \in Fallas, id \in (1..MaxTareas) \ DOMAIN tareas :
        decorated_function(c).outcome = "ok"
        => /\ \A data \in TaskBodies : \A r \in {actualizar_tarea_api(c, id, data, falla)} :
                 r.outcome = "NotFound" /\ r.tabla = tareas
           /\ \A r \in {eliminar_tarea_view(c, id, falla)} :
                 r.outcome = "NotFound" /\ r.tabla = tareas
           /\ \A estado \in EstadoValues :
              \A r \in {actualizar_estado_tarea_view(c, id, estado, falla)} :
                 r.outcome = "NotFound" /\ r.tabla = tareas
           /\ es_admin(db, session[c].usuario)
              => \A campo \in {f \in IdFields : ~int_raises(f) /\ int(f) = id} :
                 \A r \in {eliminar_tarea_admin(c, campo, falla)} :
                    r.outcome = "NotFound" /\ r.tabla = tareas

\* the create and update paths of events and tasks
CreateUpdateOps ==
    {"crear_evento_view", "crear_evento_api", "actualizar_evento_api", "crear_tarea_view",
     "actualizar_tarea_api"}

\* the name a route validates, after sanitizar_texto, is acceptable
NombreOk(form) == validar_texto_seguro(sanitizar_texto(form.nombre), 100, TRUE)

\* the hours of the body are two times of day, the end before the start
HorasInvertidas(form) ==
    /\ IsHHMM(form.hora_evento)
    /\ IsHHMM(form.hora_fin)
    /\ Before(form.hora_fin, form.hora_evento)

FallasUna == {NoFalla, FallaExecute, FallaCommit}

\* the date n days after f
RECURSIVE Mas(_, _)
Mas(f, n) == IF n = 0 THEN f ELSE Mas(DiaSiguiente(f), n - 1)

\* the date is more than dias days before hoy
Antiguo(f, dias, hoy) == Before(Mas(f, dias), hoy)

\* the table without the rows of the keys quitar
Sin(tabla, quitar) == [x \in DOMAIN tabla \ quitar |-> tabla[x]]

\* id is the only row of despues that differs from antes
SoloCambia(antes, despues, id) ==
    /\ DOMAIN despues \ {id} = DOMAIN antes \ {id}
    /\ \A x \in DOMAIN antes \ {id} : despues[x] = antes[x]

Exitos == {"Created", "Updated", "Deleted", "Toggled", "Purged"}

\* C17: a failed mutation is always surfaced to its caller as an error.
\* Whenever a statement or the commit of a route's store operation raises, the
\* purge of old data included, the route's answer is an error and never a
\* success such as a count of deleted records.
C17_FailureSurfaced ==
    \A c \in Clients :
        /\ \A form \in StoreEventForms, falla \in FallasUna \ {NoFalla} :
               crear_evento_view(c, form, falla).outcome \notin Exitos
        /\ \A form \in StoreTaskForms, falla \in FallasUna \ {NoFalla} :
               crear_tarea_view(c, form, falla).outcome \notin Exitos
        /\ \A id \in UserIdFields, falla \in FallasCascada \ {NoFalla} :
               eliminar_usuario_admin(c, id, falla).outcome \notin Exitos
        /\ \A dias \in DiasFields, falla \in FallasLimpiar \ {NoFalla} :
               limpiar_datos_admin(c, dias, falla).outcome \notin Exitos

\* C16: the user invariant.  After any sequence of registrations and changes
\* of user name every stored user name is unique, consists only of letters and
\* digits and has between 3 and 50 characters, and every stored role is 1 or 3.
C16_UserInvariant ==
    \A n \in DOMAIN db :
        /\ Len(n) >= 3 /\ Len(n) <= 50
        /\ \A i \in 1..Len(n) : n[i] \in AlNum
        /\ db[n].rol \in {1, 3}
        /\ \A m \in DOMAIN db : db[m].id = db[n].id => m = n

----------------------------------------------------------------------------
(* The session tracker: failed logins, superseded tokens, thresholds *)

\* the entry authenticates a request that presents its token at time t
Autentica(data, t) ==
    /\ data # NoData
    /\ data.last_active # NoTime
    /\ t - data.last_active <= SESSION_TTL

\* C25: a login attempt that is refused for invalid credentials leaves the
\* session map entry of the targeted user as it was, with or without the force
\* flag: a live session of that user keeps its token and keeps authenticating.
C25_FailedLoginKeepsEntry ==
    \A c \in Clients, form \in LoginForms, f \in BOOLEAN :
    \A r \in {login(c, form[1], form[2], f)} :
        (/\ r.outcome = "InvalidCredentials"
         /\ Autentica(Get(ACTIVE_USER_SESSIONS, sanitizar_texto(form[1])), now))
        => Get(r.map, sanitizar_texto(form[1])) =
              Get(ACTIVE_USER_SESSIONS, sanitizar_texto(form[1]))

\* C26: only the holder of the current token ends a user's session through
\* logout.  A logout sent by a client whose token for its user was superseded
\* by a later login leaves the user's current entry in the map.
C26_SupersededLogoutKeepsEntry ==
    \A c \in Clients :
        (/\ session[c].usuario # NoUser
         /\ session[c].session_token # NoToken
         /\ Get(ACTIVE_USER_SESSIONS, session[c].usuario) # NoData
         /\ Get(ACTIVE_USER_SESSIONS, session[c].usuario).token # session[c].session_token)
        => Get(logout(c).map, session[c].usuario) =
              Get(ACTIVE_USER_SESSIONS, session[c].usuario)

\* C27: the expiry thresholds of login and of the authentication agree.  At
\* every time a login without force is granted over an existing entry only if
\* a request presenting that entry's token at the same time would be refused;
\* at an inactivity of exactly SESSION_TTL the login does not replace a session
\* that still authenticates.
C27_ThresholdsAgree ==
    \A c \in Clients, form \in LoginForms :
    \A r \in {login(c, form[1], form[2], FALSE)} :
        (/\ r.outcome = "Granted"
         /\ Get(ACTIVE_USER_SESSIONS, sanitizar_texto(form[1])) # NoData)
        => ~Autentica(Get(ACTIVE_USER_SESSIONS, sanitizar_texto(form[1])), now)

\* C29: after an administrator deletes a user account no session of that user
\* is recognised: the session map has no entry under the deleted user's name
\* and a request presenting the token issued to that user is not authenticated.
C29_DeletedUserNoSession ==
    \A c \in Clients, id \in UserIdFields :
    \A r \in {eliminar_usuario_admin(c, id, NoFalla)} :
        r.outcome = "Deleted" =>
            \A u \in DOMAIN db :
                db[u].id = int(id) =>
                    /\ u \notin DOMAIN r.map
                    /\ \A d \in Clients :
                           session[d].usuario = u =>
                               auth_outcome(session[d], r.map, now) # "ok"

----------------------------------------------------------------------------
(* The planner: answers of the update APIs, deleted users, the read cache *)

\* C30: whenever the update API of events or of tasks answers with an error
\* (400, 403, 404 or 500) the table is as it was before the request; hence
\* every update that was committed is answered with success, for the owner
\* and for an administrator who edits another user's record alike.
C30_ErrorMeansUnchanged ==
    \A c \in Clients, falla \in Fallas :
        /\ \A id \in 1..MaxEventos, data \in EventForms :
           \A r \in {actualizar_evento_api(c, id, data, falla)} :
               r.outcome # "Updated" => r.tabla = eventos
        /\ \A id \in 1..MaxTareas, data \in TaskBodies :
           \A r \in {actualizar_tarea_api(c, id, data, falla)} :
               r.outcome # "Updated" => r.tabla = tareas

\* what a reader of the gateway returns at this moment
Servido(func, args) ==
    IF func = "obtener_eventos" THEN obtener_eventos_cached(cache, segundos, eventos, args).result
    ELSE obtener_tareas_cached(cache, segundos, tareas, args).result

\* what the store holds for that reader at this moment
Actual(func, args) ==
    IF func = "obtener_eventos" THEN select_eventos(eventos, args)
    ELSE select_tareas(tareas, args)

\* C28: the read cache is coherent.  After every committed operation that
\* changes events or tasks (create, update, delete, state toggle, purge of old
\* data, deletion of a user with its cascade) the next call of obtener_eventos
\* or obtener_tareas, for any owner filter, returns the current contents of
\* the store: the cache never serves a result computed before the mutation.
C28_CacheCoherent ==
    \A func \in {"obtener_eventos", "obtener_tareas"}, args \in ArgsLectura :
        Servido(func, args) = Actual(func, args)

----------------------------------------------------------------------------
(* The pure functions: normalisation, sanitisation, projections *)

\* the text is HH:MM with the two numbers given
EsHHMM(texto, hh, mm) ==
    /\ Len(texto) = 5
    /\ texto[3] = ":"
    /\ \A i \in {1, 2, 4, 5} : texto[i] \in Digits
    /\ 10 * DigitValue(texto[1]) + DigitValue(texto[2]) = hh
    /\ 10 * DigitValue(texto[4]) + DigitValue(texto[5]) = mm

\* C21: normalizar_hora on a duration since midnight of s seconds, for every
\* s >= 0, returns the text HH:MM with HH = (s div 3600) mod 24 and
\* MM = (s mod 3600) div 60; on a text it returns its first 5 characters; it
\* returns the empty text only for an absent or empty argument.
C21_NormalizarHora ==
    (call.fn \in {"normalizar_hora", "modelo_normalizar_hora"} /\ call.done) =>
        /\ call.a.kind = "timedelta" =>
               EsHHMM(call.result, (call.a.s \div 3600) % 24, (call.a.s % 3600) \div 60)
        /\ call.a.kind = "str" =>
               /\ Len(call.result) = (IF Len(call.a.texto) < 5 THEN Len(call.a.texto) ELSE 5)
               /\ \A i \in 1..Len(call.result) : call.result[i] = call.a.texto[i]
        /\ call.result = <<>> =>
               \/ call.a.kind = "none"
               \/ call.a.kind = "str" /\ call.a.texto = <<>>

\* C22: for every text, the result of sanitizar_texto has no whitespace at its
\* ends and none of the control characters 0x00-0x08, 0x0B, 0x0C, 0x0E-0x1F,
\* and keeps in order every other character between the trimmed ends.
C22_SanitizarTexto ==
    (call.fn = "sanitizar_texto" /\ call.done) =>
        /\ call.result # <<>> =>
               /\ call.result[1] \notin Whitespace
               /\ call.result[Len(call.result)] \notin Whitespace
        /\ \A i \in 1..Len(call.result) : call.result[i] \notin ControlChars
        /\ call.result = SelectSeq(Strip(call.a), LAMBDA ch : ch \notin ControlChars)

\* C24: the projections are idempotent under re-wrapping.  For every event
\* record d, Evento(Evento(d).to_dict()).to_dict() equals Evento(d).to_dict(),
\* and the same holds for Tarea.to_dict and for Tarea.to_modal_dict.
C24_ProjectionsIdempotent ==
    (call.fn \in {"Evento.to_dict", "Tarea.to_dict", "Tarea.to_modal_dict"} /\ call.done) =>
        call.result.dos = call.result.una

\* the calendar-feed projection of a stored event, as api_eventos builds it
\* from a row of obtener_eventos
Proyeccion(id) == Evento_to_fullcalendar(Evento(fila_evento(id, eventos[id])))

\* the date part and the time part of 'YYYY-MM-DDTHH:MM'
ParteFecha(texto) == SubSeq(texto, 1, 10)
ParteHora(texto) == SubSeq(texto, 12, Len(texto))

\* the request answered last is a creation by the form with a start date, a
\* start time and no end bound, and the event was stored
CreadoSinFin ==
    /\ resp.op = "crear_evento_view"
    /\ resp.outcome = "Created"
    /\ resp.input.fecha_evento # Vacio
    /\ resp.input.hora_evento # Vacio
    /\ resp.input.fecha_fin = Vacio
    /\ resp.input.hora_fin = Vacio

\* C23: an event created with a start date and a start time and no end bound
\* is stored with fecha_fin absent and its calendar-feed projection has end
\* equal to start; for every stored event the projection's end date is the
\* start date when fecha_fin is absent and its end time is the start time
\* when hora_fin is absent.
C23_EndDefaultsToStart ==
    /\ CreadoSinFin =>
          /\ (nextId.evento - 1) \in DOMAIN eventos
          /\ eventos[nextId.evento - 1].fecha_evento = resp.input.fecha_evento
          /\ eventos[nextId.evento - 1].fecha_fin = Vacio
          /\ eventos[nextId.evento - 1].hora_fin = Vacio
          /\ Proyeccion(nextId.evento - 1).end = Proyeccion(nextId.evento - 1).start
          /\ Proyeccion(nextId.evento - 1).start
                = isoformat(resp.input.fecha_evento) \o <<"T">> \o Dos(resp.input.hora_evento[1]) \o <<":">> \o Dos(resp.input.hora_evento[2])
    /\ \A id \in DOMAIN eventos :
          /\ eventos[id].fecha_fin = Vacio =>
                ParteFecha(Proyeccion(id).end) = ParteFecha(Proyeccion(id).start)
          /\ eventos[id].hora_fin = Vacio =>
                ParteHora(Proyeccion(id).end) = ParteHora(Proyeccion(id).start)

\* an event with a start time other than midnight was created without an end
\* bound and is projected with end = start
C23_Witness ==
    /\ CreadoSinFin
    /\ resp.input.hora_evento = H0900
    /\ eventos[nextId.evento - 1].fecha_fin = Vacio
    /\ Proyeccion(nextId.evento - 1).end = isoformat(Manana) \o <<"T", "0", "9", ":", "0", "0">>
    /\ Proyeccion(nextId.evento - 1).start = Proyeccion(nextId.evento - 1).end

====
